---------------------------- MODULE Spec2Model ----------------------------
(***************************************************************************)
(* A model of the mac-optimizer agents: the safe purge executor            *)
(* (src/agents/safe_purge_executor.py), the storage scanner                *)
(* (src/agents/storage_scanner.py) and the swarm scanner                   *)
(* (src/agents/swarm_scanner.py).                                          *)
(*                                                                         *)
(* Paths are Python strings.  A string is modelled as a sequence of        *)
(* tokens: the separator "/" is one token and a name is one token, except  *)
(* that the name "u2" is the two tokens "u","2", so that the string        *)
(* "/Users/u2" has the string "/Users/u" as a prefix although the          *)
(* directory /Users/u2 is not inside the directory /Users/u.               *)
(***************************************************************************)
EXTENDS Integers, Sequences, FiniteSets, TLC

VARIABLES
    \* ---- the filesystem the purge executor runs on
    present,        \* the set of real paths that exist (directories, files, symlinks)
    links,          \* symlink path -> target string, for the symlinks of this layout
    present0,       \* history: the filesystem when generate_cleanup_script was called
    \* ---- generate_cleanup_script
    target_paths,   \* the argument
    ppc,            \* position: "validate", "delete" or "done"
    pidx,           \* index of the next element of the loop at ppc
    validated_paths,
    deleted_count,
    freed_bytes,
    deleted_paths,
    result,         \* the returned document
    outcome,        \* history: per validated path, "ok" if the step removed it from
                    \* the filesystem, else "error"
    measured,       \* history: per validated path, the size measured (0 on error)
    \* ---- classify_risk applied to one path
    cpath,          \* the argument
    crisk,          \* the value returned, "none" before the call
    \* ---- run_scan
    dirs,           \* the scanned filesystem: directory -> bytes of the files in it
    spc,            \* position of run_scan: the phase that runs next, or "done"
    out,            \* the events written to stdout, in order
    all_items,
    tracker,         \* the ProgressTracker
    \* ---- deploy_swarm (swarm_scanner.py)
    thr,            \* thread -> its position and locals
    emit_lock,      \* _emit_lock: the thread that holds it, or NoThread
    item_buffer,    \* _item_buffer
    stdout,         \* the batch and complete lines written to sys.stdout, in order
    writing,        \* the threads that are inside sys.stdout.write
    hive,           \* the locals of deploy_swarm
    \* ---- the result store (scan_cache.db) with run_scan and run_status
    scan_results,   \* the rows of table scan_results, in insertion order
    sqlite_sequence,\* the largest id that AUTOINCREMENT has handed out
    inserted,       \* history: the ids inserted, in order
    scan_event,     \* the complete event of the last run_scan
    status_event,   \* the event of a run_status since the last run_scan
    saved,          \* history: the last run_scan wrote its row
    \* ---- predict_space_exhaustion applied to one timeline
    timeline,       \* the argument: the history records, oldest first
    disk_free,      \* the argument
    prediction,     \* the value returned, [called |-> FALSE] before the call
    \* ---- build_recommendations applied to one scan
    rec_items,      \* the argument items
    disk_map,       \* the argument: disk_free and disk_total
    stale_projects, \* the argument
    recs,           \* whether the function has been called, and the list returned
    \* ---- sign_scan_results applied to a list and to a permutation of it
    sign_items,     \* the argument items
    sign_order,     \* a permutation of the indices of sign_items
    hashes,         \* the content_hash of sign_items and of sign_items permuted
    \* ---- run_daemon
    dpc,            \* position of run_daemon
    running,        \* the flag that handle_signal clears
    devents,        \* the events written to stdout, by name, in order
    slept,          \* the iterations of the sleep loop that have been run
    scans,          \* history: the calls of run_scan
    sig_at,         \* history: the position at which the first signal arrived
    sleeps_after,   \* history: the calls of time.sleep that began after it
    scans_after,    \* history: the calls of run_scan that began after it
    \* ---- run_scan on a filesystem whose calls fail
    fpc,            \* position of run_scan: the pass that runs, "done" or "aborted"
    errors,         \* tracker.errors: kind -> count
    raised,         \* history: the errors the filesystem has raised, kind -> count
    fout,            \* the events written to stdout, by name, in order
    \* ---- run_scan with its docker, tmutil and diskutil subprocess calls
    tpc,            \* position of run_scan: the pass that runs next, or "done"
    cache_dirs,     \* the filesystem: cache directory -> its bytes (0: not there)
    calls,          \* history: subprocess call -> how it ended
    tool_items,     \* all_items
    hidden_space,   \* the value detect_hidden_space returned
    tout,            \* the complete events written to stdout, in order
    \* ---- scan_full_disk
    mpc,            \* position of scan_full_disk: the section that runs next, or "done"
    listing,        \* what os.scandir yields for HOME, ~/Library and /Applications
    categories,     \* cat_id -> bytes, count and dirs
    total_mapped,
    \* ---- detect_stale_projects
    zpc,            \* position of detect_stale_projects: "scan", "sort" or "done"
    root_idx,       \* the index of the search root that the loop handles next
    root_dirs,      \* the filesystem: what HOME and ~/Projects hold, and whether
                    \* ~/dev is a symlink to ~/Projects
    seen,
    projects,
    \* ---- deploy_swarm on a filesystem with the scanner's own project
    wpc,            \* position of deploy_swarm: "explore", "analyze" or "done"
    walk_links,     \* the filesystem: symlink -> its target
    walk_roots,     \* scan_roots
    explored,       \* the indices of the scan roots whose explorer has returned
    found_items,    \* the items of the explorers (all_items after phase 1)
    deep_targets,
    handed,         \* history: the targets submitted to agent_worker_analyzer
    analyzed,        \* history: the regular files the analyzers have sized
    \* ---- deploy_swarm and its two thread pools
    hpc,            \* position of deploy_swarm
    explorer_futures, \* the state of every task submitted in phase 1, in order
    analyzer_futures, \* the state of every task submitted in phase 2, in order
    pool_targets,   \* len(deep_targets)
    pool_events,     \* the events deploy_swarm itself has emitted, by name
    \* ---- ProgressTracker.update and check_disk
    kpc,            \* "idle" or "scanning": a ProgressTracker exists
    progress_tracker, \* its items_found, disk_warned and last_emit_time
    tracker_out,    \* the events the tracker has emitted
    disk_checks,     \* history: every call of check_disk_space by check_disk
    \* ---- the timeline and the prediction of run_scan
    history_rows,   \* scan_results: id, scan_time and total_bytes of every row
    history_seq,    \* the largest id the table has ever held
    history_now,    \* datetime.now(), in seconds
    history_event,  \* the complete event of the last scan
    scans_run       \* history: for every scan, whether the store was opened, and its total

purgeVars == <<present, links, present0, target_paths, ppc, pidx, validated_paths,
               deleted_count, freed_bytes, deleted_paths, result, outcome, measured>>

classVars == <<cpath, crisk>>

scanVars == <<dirs, spc, out, all_items, tracker>>

swarmVars == <<thr, emit_lock, item_buffer, stdout, writing, hive>>

storeVars == <<scan_results, sqlite_sequence, inserted, scan_event, status_event, saved>>

predictVars == <<timeline, disk_free, prediction>>

recVars == <<rec_items, disk_map, stale_projects, recs>>

signVars == <<sign_items, sign_order, hashes>>

daemonVars == <<dpc, running, devents, slept, scans, sig_at, sleeps_after, scans_after>>

faultVars == <<fpc, errors, raised, fout>>

toolsVars == <<tpc, cache_dirs, calls, tool_items, hidden_space, tout>>

diskVars == <<mpc, listing, categories, total_mapped>>

staleVars == <<zpc, root_idx, root_dirs, seen, projects>>

walkVars == <<wpc, walk_links, walk_roots, explored, found_items, deep_targets, handed, analyzed>>

poolVars == <<hpc, explorer_futures, analyzer_futures, pool_targets, pool_events>>

latchVars == <<kpc, progress_tracker, tracker_out, disk_checks>>

histVars == <<history_rows, history_seq, history_now, history_event, scans_run>>

vars == <<purgeVars, classVars, scanVars, swarmVars, storeVars, predictVars, recVars,
          signVars, daemonVars, faultVars, toolsVars, diskVars, staleVars, walkVars,
          poolVars, latchVars, histVars>>

\* the variables of the other entry points, which generate_cleanup_script never touches
notPurgeVars == <<classVars, scanVars, swarmVars, storeVars, predictVars, recVars,
                  signVars, daemonVars, faultVars, toolsVars, diskVars, staleVars,
                  walkVars, poolVars, latchVars, histVars>>

\* the variables of the other entry points, which run_scan never touches
notScanVars == <<purgeVars, classVars, swarmVars, storeVars, predictVars, recVars,
                 signVars, daemonVars, faultVars, toolsVars, diskVars, staleVars,
                 walkVars, poolVars, latchVars, histVars>>

\* the variables of the entry points, which a call of classify_risk alone never touches
notClassVars == <<purgeVars, scanVars, swarmVars, storeVars, predictVars, recVars,
                  signVars, daemonVars, faultVars, toolsVars, diskVars, staleVars,
                  walkVars, poolVars, latchVars, histVars>>

\* the variables that deploy_swarm (swarm_scanner.py) never touches
notSwarmVars == <<purgeVars, classVars, scanVars, storeVars, predictVars, recVars,
                  signVars, daemonVars, faultVars, toolsVars, diskVars, staleVars,
                  walkVars, poolVars, latchVars, histVars>>

\* the variables that the result store and run_status never touch
notStoreVars == <<purgeVars, classVars, scanVars, swarmVars, predictVars, recVars,
                  signVars, daemonVars, faultVars, toolsVars, diskVars, staleVars,
                  walkVars, poolVars, latchVars, histVars>>

\* the variables that predict_space_exhaustion applied to one timeline never touches
notPredictVars == <<purgeVars, classVars, scanVars, swarmVars, storeVars, recVars,
                    signVars, daemonVars, faultVars, toolsVars, diskVars, staleVars,
                    walkVars, poolVars, latchVars, histVars>>

\* the variables that build_recommendations applied to one scan never touches
notRecVars == <<purgeVars, classVars, scanVars, swarmVars, storeVars, predictVars,
                signVars, daemonVars, faultVars, toolsVars, diskVars, staleVars,
                walkVars, poolVars, latchVars, histVars>>

\* the variables that sign_scan_results applied to a list and to a permutation of it never touches
notSignVars == <<purgeVars, classVars, scanVars, swarmVars, storeVars, predictVars,
                 recVars, daemonVars, faultVars, toolsVars, diskVars, staleVars,
                 walkVars, poolVars, latchVars, histVars>>

\* the variables that run_daemon never touches
notDaemonVars == <<purgeVars, classVars, scanVars, swarmVars, storeVars, predictVars,
                   recVars, signVars, faultVars, toolsVars, diskVars, staleVars,
                   walkVars, poolVars, latchVars, histVars>>

\* the variables that run_scan on a filesystem whose calls fail never touches
notFaultVars == <<purgeVars, classVars, scanVars, swarmVars, storeVars, predictVars,
                  recVars, signVars, daemonVars, toolsVars, diskVars, staleVars,
                  walkVars, poolVars, latchVars, histVars>>

\* the variables that run_scan with its docker, tmutil and diskutil subprocess calls never touches
notToolsVars == <<purgeVars, classVars, scanVars, swarmVars, storeVars, predictVars,
                  recVars, signVars, daemonVars, faultVars, diskVars, staleVars,
                  walkVars, poolVars, latchVars, histVars>>

\* the variables that scan_full_disk never touches
notDiskVars == <<purgeVars, classVars, scanVars, swarmVars, storeVars, predictVars,
                 recVars, signVars, daemonVars, faultVars, toolsVars, staleVars,
                 walkVars, poolVars, latchVars, histVars>>

\* the variables that detect_stale_projects never touches
notStaleVars == <<purgeVars, classVars, scanVars, swarmVars, storeVars, predictVars,
                  recVars, signVars, daemonVars, faultVars, toolsVars, diskVars,
                  walkVars, poolVars, latchVars, histVars>>

\* the variables that deploy_swarm on a filesystem with the scanner's own project never touches
notWalkVars == <<purgeVars, classVars, scanVars, swarmVars, storeVars, predictVars,
                 recVars, signVars, daemonVars, faultVars, toolsVars, diskVars,
                 staleVars, poolVars, latchVars, histVars>>

\* the variables that deploy_swarm and its two thread pools never touches
notPoolVars == <<purgeVars, classVars, scanVars, swarmVars, storeVars, predictVars,
                 recVars, signVars, daemonVars, faultVars, toolsVars, diskVars,
                 staleVars, walkVars, latchVars, histVars>>

\* the variables that ProgressTracker.update and check_disk never touches
notLatchVars == <<purgeVars, classVars, scanVars, swarmVars, storeVars, predictVars,
                  recVars, signVars, daemonVars, faultVars, toolsVars, diskVars,
                  staleVars, walkVars, poolVars, histVars>>

\* the variables that the timeline and the prediction of run_scan never touches
notHistVars == <<purgeVars, classVars, scanVars, swarmVars, storeVars, predictVars,
                 recVars, signVars, daemonVars, faultVars, toolsVars, diskVars,
                 staleVars, walkVars, poolVars, latchVars>>

-----------------------------------------------------------------------------
(* Strings *)

Sep == "/"

\* str.startswith
StartsWith(s, prefix) ==
    /\ Len(prefix) <= Len(s)
    /\ SubSeq(s, 1, Len(prefix)) = prefix

RECURSIVE JoinFrom(_, _)
JoinFrom(base, names) ==
    IF names = <<>> THEN base
    ELSE JoinFrom((IF base # <<>> /\ base[Len(base)] = Sep THEN base ELSE Append(base, Sep))
                      \o Head(names), Tail(names))

\* os.path.join(base, n1, n2, ...): each name is a token sequence without separators
PathJoin(base, names) == JoinFrom(base, names)

\* the index of the last separator of s, 0 if none
LastSep(s) ==
    LET idxs == {i \in 1..Len(s) : s[i] = Sep}
    IN  IF idxs = {} THEN 0 ELSE CHOOSE i \in idxs : \A j \in idxs : j <= i

\* os.path.basename
Basename(s) == SubSeq(s, LastSep(s) + 1, Len(s))

\* os.path.dirname of an absolute normalised path
Dirname(s) == IF LastSep(s) <= 1 THEN <<Sep>> ELSE SubSeq(s, 1, LastSep(s) - 1)

\* str.split("/") of the part of s after position i
RECURSIVE SplitFrom(_, _, _)
SplitFrom(s, i, cur) ==
    IF i > Len(s) THEN <<cur>>
    ELSE IF s[i] = Sep THEN <<cur>> \o SplitFrom(s, i + 1, <<>>)
    ELSE SplitFrom(s, i + 1, Append(cur, s[i]))

Components(s) == SplitFrom(s, 1, <<>>)


\* a path below base by single-token names: J(home, <<"Library", "Caches">>)
RECURSIVE J(_, _)
J(base, names) ==
    IF names = <<>> THEN base
    ELSE J(PathJoin(base, << <<Head(names)>> >>), Tail(names))

-----------------------------------------------------------------------------
(* generate_cleanup_script: its tables *)

\* os.path.expanduser('~')
user_home == <<Sep, "Users", Sep, "u">>

safe_zones == <<
    J(user_home, <<"Library", "Caches">>),
    J(user_home, <<"Library", "Logs">>),
    J(user_home, <<"Library", "Developer">>),
    J(user_home, <<"Library", "Saved Application State">>),
    J(user_home, <<"Library", "Application Support", "CrashReporter">>),
    J(user_home, <<"Library", "Application Support", "MobileSync", "Backup">>),
    J(user_home, <<"Library", "Audio", "Apple Loops">>),
    J(user_home, <<"Library", "Containers">>),
    J(user_home, <<"Library", "Group Containers">>),
    J(user_home, <<"Library", "Caches", "Homebrew">>),
    J(user_home, <<"Library", "Application Support", "Google", "Chrome">>),
    J(user_home, <<"Library", "Application Support", "Firefox">>),
    J(user_home, <<"Library", "Application Support", "Arc">>),
    J(user_home, <<"Library", "Application Support", "BraveSoftware">>),
    J(user_home, <<"Library", "Application Support", "Microsoft Edge">>),
    J(user_home, <<".npm">>),
    J(user_home, <<".cache">>),
    J(user_home, <<".cargo", "registry">>),
    J(user_home, <<".rustup">>),
    J(user_home, <<".pyenv">>),
    J(user_home, <<".gradle">>),
    J(user_home, <<".cocoapods">>),
    J(user_home, <<".pub-cache">>),
    J(user_home, <<".Trash">>),
    J(user_home, <<"Library", "Developer", "Xcode", "DerivedData">>),
    J(user_home, <<"Library", "Developer", "CoreSimulator">>) >>

ALWAYS_SAFE_BASENAMES == {
    <<"node_modules">>, <<".venv">>, <<"venv">>, <<"__pycache__">>, <<".next">>, <<".nuxt">>,
    <<".cache">>, <<".tox">>, <<".gradle">>, <<"Pods">>, <<"DerivedData">>, <<".dart_tool">>,
    <<"coverage">>, <<".parcel-cache">>, <<".turbo">> }

FORBIDDEN_PATHS == {
    user_home,
    J(user_home, <<"Desktop">>),
    J(user_home, <<"Documents">>),
    J(user_home, <<"Downloads">>),
    J(user_home, <<"Pictures">>),
    J(user_home, <<"Music">>),
    J(user_home, <<"Movies">>),
    J(user_home, <<"Library">>),
    <<Sep>>,
    <<Sep, "System">>,
    <<Sep, "Applications">>,
    <<Sep, "Users">>,
    <<Sep, "var">>,
    <<Sep, "private">>,
    <<Sep, "usr">>,
    <<Sep, "bin">>,
    <<Sep, "sbin">>,
    <<Sep, "tmp">> }

-----------------------------------------------------------------------------
(* The filesystem: a macOS volume with one user, u, and a second user, u2 *)

Root        == <<Sep>>
Documents   == J(user_home, <<"Documents">>)
DocFile     == J(Documents, <<"f">>)
Caches      == J(user_home, <<"Library", "Caches">>)
CachesApp   == J(Caches, <<"com.example">>)
CachesAppF  == J(CachesApp, <<"f">>)
CachesAppLn == J(CachesApp, <<"ln">>)
DotCache    == J(user_home, <<".cache">>)
Proj        == J(user_home, <<"proj">>)
ProjNM      == J(Proj, <<"node_modules">>)
ProjNMF     == J(ProjNM, <<"f">>)
OtherHome   == <<Sep, "Users", Sep, "u", "2">>
OtherNM     == J(OtherHome, <<"node_modules">>)
OtherNMF    == J(OtherNM, <<"f">>)
PrivateTmp  == <<Sep, "private", Sep, "tmp">>
PrivateTmpF == J(PrivateTmp, <<"f">>)
TmpToDocs   == J(PrivateTmp, <<"symlink-to-documents">>)
Tmp         == <<Sep, "tmp">>

FsDirs == { Root, <<Sep, "Users">>, user_home, Documents, J(user_home, <<"Library">>),
            Caches, CachesApp, Proj, ProjNM, OtherHome, OtherNM,
            <<Sep, "private">>, PrivateTmp }

\* the regular files and their sizes in bytes
FileSize == (DocFile :> 1) @@ (CachesAppF :> 2) @@ (ProjNMF :> 4) @@ (OtherNMF :> 8)
            @@ (PrivateTmpF :> 16)

FsFiles == DOMAIN FileSize

\* /tmp is a symlink to /private/tmp on macOS; com.example/ln is a symlink to a document
FixedLinks == (Tmp :> PrivateTmp) @@ (CachesAppLn :> DocFile)

\* what /private/tmp/symlink-to-documents may point at
TmpLinkTargets == { Documents, CachesApp }

\* ~/.cache is a directory (a node that is no file and no symlink), or the user has
\* made it a symlink to one of these
DotCacheTargets == { Documents, PrivateTmp }

Layouts ==
    { FixedLinks @@ (TmpToDocs :> t) : t \in TmpLinkTargets }
    \cup { FixedLinks @@ (TmpToDocs :> Documents) @@ (DotCache :> c) : c \in DotCacheTargets }

AllNodes == FsDirs \cup FsFiles \cup { Tmp, CachesAppLn, TmpToDocs, DotCache }

IsLink(P, n) == n \in P /\ n \in DOMAIN links

\* os.path.realpath of an absolute path on the filesystem P (posixpath._joinrealpath):
\* empty and "." components are skipped, ".." goes to the parent of the path resolved
\* so far, a symlink is replaced by its (absolute) target
RECURSIVE JoinReal(_, _, _)
JoinReal(P, cur, rest) ==
    IF rest = <<>> THEN cur
    ELSE LET name == Head(rest) IN
         IF name = <<>> \/ name = <<".">> THEN JoinReal(P, cur, Tail(rest))
         ELSE IF name = <<"..">> THEN JoinReal(P, Dirname(cur), Tail(rest))
         ELSE LET newpath == PathJoin(cur, <<name>>) IN
              IF IsLink(P, newpath)
              THEN JoinReal(P, Root, Components(links[newpath]) \o Tail(rest))
              ELSE JoinReal(P, newpath, Tail(rest))

RealPath(P, path) == JoinReal(P, Root, Components(path))

\* os.path.exists, os.path.isdir, os.path.isfile: all follow symlinks
Exists(P, path) == RealPath(P, path) \in P
IsDir(P, path)  == LET r == RealPath(P, path)
                   IN  r \in P /\ r \notin FsFiles /\ r \notin DOMAIN links
IsFile(P, path) == RealPath(P, path) \in P \cap FsFiles

\* n is strictly inside the directory a
IsUnder(a, n) == n # a /\ StartsWith(n, IF a = Root THEN a ELSE Append(a, Sep))

Subtree(P, a) == { n \in P : n = a \/ IsUnder(a, n) }

\* os.path.getsize of one directory entry that os.walk lists among the file names:
\* a regular file, or a symlink to one (os.path.exists and getsize follow it)
EntrySize(P, n) ==
    IF n \in FsFiles THEN FileSize[n]
    ELSE IF IsLink(P, n) /\ IsFile(P, n) THEN FileSize[RealPath(P, n)]
    ELSE 0

\* the size the executor measures for the directory `path` (lines 126-131)
RECURSIVE SumEntries(_, _)
SumEntries(P, S) ==
    IF S = {} THEN 0
    ELSE LET n == CHOOSE m \in S : TRUE IN EntrySize(P, n) + SumEntries(P, S \ {n})

WalkSize(P, path) == SumEntries(P, Subtree(P, path) \ {path})

RmTreeTopOnly(P, path) == P \ {path}

\* shutil.rmtree: the directory and everything in it, symlinks removed but not followed
RmTree(P, path) == P \ Subtree(P, path)

\* what an rmtree that raises midway may already have removed: some entries of the
\* tree, each with everything below it, but not the directory itself
PartialRemovals(P, path) ==
    { R \in SUBSET (Subtree(P, path) \ {path}) :
        \A n \in R : \A m \in P : IsUnder(n, m) => m \in R }

-----------------------------------------------------------------------------
(* generate_cleanup_script *)

\* the longest target_paths list explored
MaxTargets == 2

\* the paths a caller may send: forbidden paths named directly, with a trailing
\* separator, with "..", through a symlink; paths inside and outside the zones
TargetChoices == {
    <<Sep, "Users">>,
    Append(J(user_home, <<"Library", "..", "Documents">>), Sep),
    J(Tmp, <<"symlink-to-documents">>),
    Tmp,
    Caches,
    CachesApp,
    CachesAppF,
    J(Caches, <<"gone">>),
    DotCache,
    Proj,
    ProjNM,
    OtherNM }

RECURSIVE SeqsUpTo(_, _)
SeqsUpTo(S, n) ==
    IF n = 0 THEN { <<>> }
    ELSE LET shorter == SeqsUpTo(S, n - 1)
         IN  shorter \cup { Append(q, x) : q \in shorter, x \in S }

\* lines 100-110: the loop over the zones, each resolved with os.path.realpath
IsSafe(P, real_path) ==
    \E i \in DOMAIN safe_zones :
        LET real_zone == RealPath(P, safe_zones[i])
        IN  \/ StartsWith(real_path, Append(real_zone, Sep)) /\ Len(real_path) > Len(real_zone)
            \/ real_path = real_zone

\* lines 87-113: whether the loop body appends real_path to validated_paths
Accepts(P, real_path) ==
    /\ Exists(P, real_path)
    /\ real_path \notin FORBIDDEN_PATHS
    /\ \/ Basename(real_path) \in ALWAYS_SAFE_BASENAMES /\ StartsWith(real_path, user_home)
       \/ IsSafe(P, real_path)

NoResult == [status |-> "none"]

NoValidResult ==
    [status |-> "error", message |-> "No valid or safe paths provided for deletion."]

SuccessResult(count, freed, deleted) ==
    [status |-> "success", paths_to_delete |-> count, freed_bytes |-> freed,
     deleted |-> deleted]

PurgeStart ==
    /\ links \in Layouts
    /\ present = AllNodes
    /\ present0 = present
    /\ target_paths \in SeqsUpTo(TargetChoices, MaxTargets)
    /\ ppc = "validate"
    /\ pidx = 1
    /\ validated_paths = <<>>
    /\ deleted_count = 0
    /\ freed_bytes = 0
    /\ deleted_paths = <<>>
    /\ result = NoResult
    /\ outcome = <<>>
    /\ measured = <<>>

\* lines 84-113: one iteration of the validation loop
ValidateStep ==
    /\ ppc = "validate"
    /\ pidx <= Len(target_paths)
    /\ LET real_path == RealPath(present, target_paths[pidx])
       IN  validated_paths' = IF Accepts(present, real_path)
                              THEN Append(validated_paths, real_path)
                              ELSE validated_paths
    /\ pidx' = pidx + 1
    /\ UNCHANGED notPurgeVars
    /\ UNCHANGED <<present, links, present0, target_paths, ppc, deleted_count,
                   freed_bytes, deleted_paths, result, outcome, measured>>

ReturnErrorAsSuccess ==
    /\ ppc = "validate"
    /\ pidx > Len(target_paths)
    /\ validated_paths = <<>>
    /\ result' = SuccessResult(deleted_count, freed_bytes, deleted_paths)
    /\ ppc' = "done"
    /\ UNCHANGED notPurgeVars
    /\ UNCHANGED <<present, links, present0, target_paths, pidx, validated_paths,
                   deleted_count, freed_bytes, deleted_paths, outcome, measured>>

\* lines 115-116: nothing was validated
ReturnError ==
    /\ ppc = "validate"
    /\ pidx > Len(target_paths)
    /\ validated_paths = <<>>
    /\ result' = NoValidResult
    /\ ppc' = "done"
    /\ UNCHANGED notPurgeVars
    /\ UNCHANGED <<present, links, present0, target_paths, pidx, validated_paths,
                   deleted_count, freed_bytes, deleted_paths, outcome, measured>>

\* lines 115-122: something was validated, the deletion loop starts
BeginDelete ==
    /\ ppc = "validate"
    /\ pidx > Len(target_paths)
    /\ validated_paths # <<>>
    /\ ppc' = "delete"
    /\ pidx' = 1
    /\ UNCHANGED notPurgeVars
    /\ UNCHANGED <<present, links, present0, target_paths, validated_paths,
                   deleted_count, freed_bytes, deleted_paths, result, outcome, measured>>

\* lines 123-140, the try block for one path: every way it can end, as
\* [ok, size, after]: ok is FALSE when an exception was raised and caught, size is
\* what was measured before, after is the filesystem left behind
DeleteOutcomes(P, path) ==
    IF IsDir(P, path)
    THEN { [ok |-> TRUE, size |-> WalkSize(P, path), after |-> RmTree(P, path)] }
         \cup { [ok |-> FALSE, size |-> WalkSize(P, path), after |-> P \ R] :
                  R \in PartialRemovals(P, path) }
    ELSE IF ~Exists(P, path)
    THEN { [ok |-> FALSE, size |-> 0, after |-> P] }
    ELSE { [ok |-> TRUE, size |-> EntrySize(P, RealPath(P, path)), after |-> P \ {path}],
           [ok |-> FALSE, size |-> EntrySize(P, RealPath(P, path)), after |-> P] }

CountAlways(count, ok) == count + 1

\* line 136, inside the try block: reached only when nothing raised
CountAfter(count, ok) == IF ok THEN count + 1 ELSE count

\* lines 122-140: one iteration of the deletion loop
DeleteStep ==
    /\ ppc = "delete"
    /\ pidx <= Len(validated_paths)
    /\ \E o \in DeleteOutcomes(present, validated_paths[pidx]) :
        /\ present' = o.after
        /\ deleted_count' = CountAfter(deleted_count, o.ok)
        /\ freed_bytes' = IF o.ok THEN freed_bytes + o.size ELSE freed_bytes
        /\ deleted_paths' = IF o.ok THEN Append(deleted_paths, validated_paths[pidx])
                            ELSE deleted_paths
        /\ outcome' = Append(outcome,
                             IF validated_paths[pidx] \in present
                                /\ validated_paths[pidx] \notin o.after
                             THEN "ok" ELSE "error")
        /\ measured' = Append(measured, o.size)
    /\ pidx' = pidx + 1
    /\ UNCHANGED notPurgeVars
    /\ UNCHANGED <<links, present0, target_paths, ppc, validated_paths, result>>

\* lines 142-147
ReturnSuccess ==
    /\ ppc = "delete"
    /\ pidx > Len(validated_paths)
    /\ result' = SuccessResult(deleted_count, freed_bytes, deleted_paths)
    /\ ppc' = "done"
    /\ UNCHANGED notPurgeVars
    /\ UNCHANGED <<present, links, present0, target_paths, pidx, validated_paths,
                   deleted_count, freed_bytes, deleted_paths, outcome, measured>>

PurgeNext ==
    \/ ValidateStep
    \/ ReturnError
    \/ BeginDelete
    \/ DeleteStep
    \/ ReturnSuccess

\* the state of an entry point that is not running
PurgeIdle ==
    /\ links = <<>> /\ present = {} /\ present0 = {} /\ target_paths = <<>>
    /\ ppc = "idle" /\ pidx = 0 /\ validated_paths = <<>> /\ deleted_count = 0
    /\ freed_bytes = 0 /\ deleted_paths = <<>> /\ result = NoResult
    /\ outcome = <<>> /\ measured = <<>>

ClassIdle == cpath = <<>> /\ crisk = "idle"

ScanIdle ==
    /\ dirs = <<>> /\ spc = "idle" /\ out = <<>> /\ all_items = <<>>
    /\ tracker = [files_processed |-> 0, bytes_scanned |-> 0, items_found |-> 0]

SwarmIdle ==
    /\ thr = <<>>
    /\ emit_lock = <<>>
    /\ item_buffer = <<>>
    /\ stdout = <<>>
    /\ writing = {}
    /\ hive = <<>>

StoreIdle ==
    /\ scan_results = <<>>
    /\ sqlite_sequence = 0
    /\ inserted = <<>>
    /\ scan_event = [event |-> "none"]
    /\ status_event = [event |-> "none"]
    /\ saved = FALSE

PredictIdle ==
    /\ timeline = <<>>
    /\ disk_free = 0
    /\ prediction = [called |-> FALSE]

RecIdle ==
    /\ rec_items = <<>>
    /\ disk_map = [disk_free |-> 0, disk_total |-> 0]
    /\ stale_projects = <<>>
    /\ recs = [called |-> FALSE, list |-> <<>>]

SignIdle ==
    /\ sign_items = <<>>
    /\ sign_order = <<>>
    /\ hashes = [called |-> FALSE]

DaemonIdle ==
    /\ dpc = "idle"
    /\ running = FALSE
    /\ devents = <<>>
    /\ slept = 0
    /\ scans = 0
    /\ sig_at = "none"
    /\ sleeps_after = 0
    /\ scans_after = 0

FaultIdle ==
    /\ fpc = "idle"
    /\ errors = <<>>
    /\ raised = <<>>
    /\ fout = <<>>

ToolsIdle ==
    /\ tpc = "idle"
    /\ cache_dirs = <<>>
    /\ calls = <<>>
    /\ tool_items = <<>>
    /\ hidden_space = <<>>
    /\ tout = <<>>

DiskIdle ==
    /\ mpc = "idle"
    /\ listing = <<>>
    /\ categories = <<>>
    /\ total_mapped = 0

StaleIdle ==
    /\ zpc = "idle"
    /\ root_idx = 0
    /\ root_dirs = <<>>
    /\ seen = {}
    /\ projects = <<>>

WalkIdle ==
    /\ wpc = "idle"
    /\ walk_links = <<>>
    /\ walk_roots = <<>>
    /\ explored = {}
    /\ found_items = {}
    /\ deep_targets = {}
    /\ handed = {}
    /\ analyzed = {}

PoolIdle ==
    /\ hpc = "idle"
    /\ explorer_futures = <<>>
    /\ analyzer_futures = <<>>
    /\ pool_targets = 0
    /\ pool_events = <<>>

LatchIdle ==
    /\ kpc = "idle"
    /\ progress_tracker = [items_found |-> 0, disk_warned |-> FALSE, last_emit_time |-> 0]
    /\ tracker_out = <<>>
    /\ disk_checks = <<>>

HistIdle ==
    /\ history_rows = <<>>
    /\ history_seq = 0
    /\ history_now = 0
    /\ history_event = [event |-> "none"]
    /\ scans_run = <<>>

PurgeInit == PurgeStart /\ ClassIdle /\ ScanIdle /\ SwarmIdle /\ StoreIdle /\ PredictIdle /\ RecIdle /\ SignIdle /\ DaemonIdle /\ FaultIdle /\ ToolsIdle /\ DiskIdle /\ StaleIdle /\ WalkIdle /\ PoolIdle /\ LatchIdle /\ HistIdle

SpecPurge == PurgeInit /\ [][PurgeNext]_vars

-----------------------------------------------------------------------------
(* The purge executor's properties *)

PurgeDone == ppc = "done"

\* the zone test as the specification words it
UnderHome(p) == IsUnder(user_home, p)

InRealZone(P, p) ==
    \E i \in DOMAIN safe_zones :
        LET z == RealPath(P, safe_zones[i]) IN p = z \/ IsUnder(z, p)

ZoneTest(P, p) ==
    \/ InRealZone(P, p)
    \/ Basename(p) \in ALWAYS_SAFE_BASENAMES /\ UnderHome(p)

\* C1: every path that is sized or removed has a real path that passed the zone test
\* (inside or equal to a real-path-resolved safe zone, or an always-safe basename
\* under the user's home), and inputs that all fail the test leave the filesystem
\* as it was.
C1_OnlyZoneTestedPathsTouched ==
    /\ \A i \in DOMAIN validated_paths : ZoneTest(present0, validated_paths[i])
    /\ \A n \in present0 \ present :
          \E i \in DOMAIN validated_paths :
              /\ ZoneTest(present0, validated_paths[i])
              /\ n = validated_paths[i] \/ IsUnder(validated_paths[i], n)
    /\ (\A i \in DOMAIN target_paths :
            ~ZoneTest(present0, RealPath(present0, target_paths[i])))
          => present = present0

\* the directories the FORBIDDEN set names, on the filesystem as it was at the call
ForbiddenReal == { RealPath(present0, f) : f \in FORBIDDEN_PATHS }

\* C2: a path of the FORBIDDEN set is never deleted, however the input names it, and
\* a request naming only such paths ends with status error.
C2_ForbiddenNeverDeleted ==
    /\ \A r \in ForbiddenReal : r \in present0 => r \in present
    /\ (/\ PurgeDone
        /\ \A i \in DOMAIN target_paths :
              RealPath(present0, target_paths[i]) \in ForbiddenReal)
          => result.status = "error"

\* C3: a path outside every safe zone with an always-safe basename is accepted only
\* when its real path is a descendant of the user's home directory.
C3_AlwaysSafeOnlyUnderHome ==
    \A i \in DOMAIN validated_paths :
        (/\ Basename(validated_paths[i]) \in ALWAYS_SAFE_BASENAMES
         /\ ~InRealZone(present0, validated_paths[i]))
          => UnderHome(validated_paths[i])

NoneAccepted ==
    \A i \in DOMAIN target_paths :
        ~Accepts(present0, RealPath(present0, target_paths[i]))

\* C4: when validation accepts no input path, the result is exactly the error
\* document "No valid or safe paths provided for deletion." and the filesystem is
\* unchanged.
C4_NoneAcceptedIsError ==
    (PurgeDone /\ NoneAccepted) => (result = NoValidResult /\ present = present0)

\* C4's case: the only input is the symlink under /tmp that resolves to ~/Documents
C4_Witness ==
    /\ PurgeDone
    /\ target_paths = << J(Tmp, <<"symlink-to-documents">>) >>
    /\ links[TmpToDocs] = Documents
    /\ result = NoValidResult

\* the validated paths whose removal succeeded
RemovedOk == { validated_paths[k] : k \in { j \in DOMAIN outcome : outcome[j] = "ok" } }

\* C5: after the executor returns, an accepted input whose deletion raised no error
\* is gone with all its descendants, also when it was supplied as a symlink.
C5_DeletedPathsAreGone ==
    PurgeDone =>
        \A i \in DOMAIN target_paths :
            LET r == RealPath(present0, target_paths[i])
            IN  r \in RemovedOk =>
                    /\ ~Exists(present, target_paths[i])
                    /\ Subtree(present, r) = {}

\* C5's case: a symlink to a directory inside the Caches zone was supplied and the
\* directory behind it, which had entries, was deleted
C5_Witness ==
    /\ PurgeDone
    /\ target_paths = << J(Tmp, <<"symlink-to-documents">>) >>
    /\ links[TmpToDocs] = CachesApp
    /\ deleted_paths = <<CachesApp>>
    /\ CachesAppF \in present0

RECURSIVE SelectOk(_, _)
SelectOk(paths, outs) ==
    IF paths = <<>> \/ outs = <<>> THEN <<>>
    ELSE (IF Head(outs) = "ok" THEN <<Head(paths)>> ELSE <<>>)
         \o SelectOk(Tail(paths), Tail(outs))

RECURSIVE SumOk(_, _)
SumOk(sizes, outs) ==
    IF sizes = <<>> \/ outs = <<>> THEN 0
    ELSE (IF Head(outs) = "ok" THEN Head(sizes) ELSE 0) + SumOk(Tail(sizes), Tail(outs))

\* C6: a failure on one accepted path does not stop the loop; once a path was
\* accepted the result is a success document whose paths_to_delete is the length of
\* deleted, whose deleted lists exactly the accepted paths whose removal succeeded,
\* each once, and whose freed_bytes is the sum of the sizes measured for those.
C6_Accounting ==
    (PurgeDone /\ validated_paths # <<>>) =>
        /\ result.status = "success"
        /\ Len(outcome) = Len(validated_paths)
        /\ result.paths_to_delete = Len(result.deleted)
        /\ result.deleted = SelectOk(validated_paths, outcome)
        /\ \A j, k \in DOMAIN result.deleted : result.deleted[j] = result.deleted[k] => j = k
        /\ result.freed_bytes = SumOk(measured, outcome)

\* C6's case: the first accepted path failed, the second, a duplicate of it, was
\* deleted and counted
C6_Witness ==
    /\ PurgeDone
    /\ Len(validated_paths) = 2
    /\ validated_paths[1] = validated_paths[2]
    /\ outcome = <<"error", "ok">>
    /\ result.paths_to_delete = 1
    /\ result.freed_bytes > 0

-----------------------------------------------------------------------------
(* classify_risk *)

SAFE_PATTERNS == <<
    <<Sep, "Caches", Sep>>, <<Sep, "cache", Sep>>, <<Sep, "Cache", Sep>>,
    <<Sep, "tmp", Sep>>, <<Sep, "Temp", Sep>>,
    <<Sep, "DerivedData", Sep>>, <<Sep, "node_modules", Sep>>, <<Sep, ".npm", Sep>>,
    <<Sep, "__pycache__", Sep>>,
    <<Sep, "target", Sep, "debug", Sep>>, <<Sep, "target", Sep, "release", Sep>>,
    <<Sep, ".cargo", Sep, "registry", Sep>>,
    <<Sep, "pkg", Sep, "mod", Sep, "cache", Sep>>, <<Sep, ".Trash", Sep>>,
    <<Sep, "Logs", Sep>>, <<Sep, "log", Sep>>,
    <<Sep, "Code Cache", Sep>>, <<Sep, "Service Worker", Sep>>, <<Sep, "GPUCache", Sep>>,
    <<Sep, "ShaderCache", Sep>>, <<Sep, "GrShaderCache", Sep>>, <<Sep, "ScriptCache", Sep>> >>

CAUTION_PATTERNS == <<
    <<Sep, "Application Support", Sep>>, <<Sep, "Containers", Sep>>,
    <<Sep, "Preferences", Sep>>,
    <<Sep, "Saved Application State", Sep>>, <<Sep, "Homebrew", Sep>>, <<Sep, "Docker", Sep>>,
    <<Sep, "MobileSync", Sep, "Backup", Sep>>, <<Sep, "Mail Downloads", Sep>>,
    <<Sep, ".venv", Sep>>, <<Sep, "venv", Sep>>, <<Sep, ".virtualenv", Sep>> >>

CRITICAL_PATTERNS == <<
    <<Sep, "System", Sep>>, <<Sep, "usr", Sep>>, <<Sep, "bin", Sep>>, <<Sep, "sbin", Sep>>,
    <<Sep, "private", Sep, "var", Sep, "db", Sep>>,
    <<Sep, "Library", Sep, "LaunchDaemons", Sep>>, <<Sep, "Library", Sep, "LaunchAgents", Sep>>,
    <<Sep, "System", Sep, "Library", Sep>>, <<Sep, "private", Sep, "etc", Sep>> >>

\* `pattern in path` for strings: the pattern occurs at some position
RECURSIVE InAt(_, _, _)
InAt(pattern, path, i) ==
    IF i + Len(pattern) - 1 > Len(path) THEN FALSE
    ELSE IF SubSeq(path, i, i + Len(pattern) - 1) = pattern THEN TRUE
    ELSE InAt(pattern, path, i + 1)

In(pattern, path) == InAt(pattern, path, 1)

\* `for pattern in patterns: if pattern in path: return ...`: TRUE when the loop returns
RECURSIVE LoopReturns(_, _, _)
LoopReturns(patterns, i, path) ==
    IF i > Len(patterns) THEN FALSE
    ELSE IF In(patterns[i], path) THEN TRUE
    ELSE LoopReturns(patterns, i + 1, path)

classify_risk_safe_first(path) ==
    IF LoopReturns(SAFE_PATTERNS, 1, path) THEN "safe"
    ELSE IF LoopReturns(CRITICAL_PATTERNS, 1, path) THEN "critical"
    ELSE "caution"

classify_risk(path) ==
    IF LoopReturns(CRITICAL_PATTERNS, 1, path) THEN "critical"
    ELSE IF LoopReturns(CAUTION_PATTERNS, 1, path) THEN "caution"
    ELSE IF LoopReturns(SAFE_PATTERNS, 1, path) THEN "safe"
    ELSE "caution"

\* the longest path string classified
MaxPathLen == 5

\* the tokens the classified strings are made of: the separator, a name of a
\* critical, of a caution and of a safe pattern, and a name of no pattern
PathTokens == { Sep, "System", "Containers", "Caches", "x" }

ClassInit ==
    /\ cpath \in SeqsUpTo(PathTokens, MaxPathLen)
    /\ crisk = "none"
    /\ PurgeIdle /\ ScanIdle
    /\ SwarmIdle
    /\ StoreIdle
    /\ PredictIdle
    /\ RecIdle
    /\ SignIdle
    /\ DaemonIdle
    /\ FaultIdle
    /\ ToolsIdle
    /\ DiskIdle
    /\ StaleIdle
    /\ WalkIdle
    /\ PoolIdle
    /\ LatchIdle
    /\ HistIdle

Classify ==
    /\ crisk = "none"
    /\ crisk' = classify_risk(cpath)
    /\ UNCHANGED cpath
    /\ UNCHANGED notClassVars

ClassNext == Classify

SpecClassify == ClassInit /\ [][ClassNext]_vars

\* the string p holds the string q: p = a \o q \o b for some a and b
Substring(q, p) ==
    \E a \in 0..(Len(p) - Len(q)) : \A k \in 1..Len(q) : p[a + k] = q[k]

HasPattern(patterns, p) == \E i \in DOMAIN patterns : Substring(patterns[i], p)

\* C9: classify_risk returns exactly one of critical, caution, safe for every path:
\* critical if a critical pattern is a substring, otherwise caution if a caution
\* pattern is, otherwise safe if a safe pattern is, otherwise caution.
C9_ClassifyPriority ==
    crisk # "none" =>
        /\ crisk \in {"critical", "caution", "safe"}
        /\ crisk = "critical" <=> HasPattern(CRITICAL_PATTERNS, cpath)
        /\ crisk = "safe" <=> /\ ~HasPattern(CRITICAL_PATTERNS, cpath)
                              /\ ~HasPattern(CAUTION_PATTERNS, cpath)
                              /\ HasPattern(SAFE_PATTERNS, cpath)

\* C9's case: a path with a safe pattern and a critical pattern is critical
C9_Witness ==
    /\ cpath = <<Sep, "Caches", Sep, "System", Sep>>
    /\ crisk = "critical"

-----------------------------------------------------------------------------
(* The storage scanner: configuration and the filesystem it reads *)

HOME == user_home
LIBRARY == J(HOME, <<"Library">>)
MIN_ITEM_SIZE == 1024

\* the filesystem is given by the directories that hold files, each with the bytes
\* of the files directly in it; a directory exists when it or something below it does
\* os.path.isdir
dir_exists(path) == \E x \in DOMAIN dirs : x = path \/ IsUnder(path, x)

RECURSIVE SumDirs(_)
SumDirs(S) ==
    IF S = {} THEN 0
    ELSE LET x == CHOOSE y \in S : TRUE IN dirs[x] + SumDirs(S \ {x})

\* the sum of the sizes of the files below path
get_dir_size_fast(path) == SumDirs({ x \in DOMAIN dirs : x = path \/ IsUnder(path, x) })

\* the name of the entry of the directory base on the way to x, which is below base
EntryToward(base, x) ==
    LET rest == SubSeq(x, Len(base) + 2, Len(x))
        seps == { i \in 1..Len(rest) : rest[i] = Sep }
    IN  IF seps = {} THEN rest
        ELSE SubSeq(rest, 1, (CHOOSE i \in seps : \A j \in seps : i <= j) - 1)

\* os.listdir(base): the names of its entries (all directories here)
listdir(base) == { EntryToward(base, x) : x \in { y \in DOMAIN dirs : IsUnder(base, y) } }

\* some enumeration of a finite set, as os.listdir and os.walk give one
RECURSIVE SetToSeq(_)
SetToSeq(S) ==
    IF S = {} THEN <<>>
    ELSE LET x == CHOOSE y \in S : TRUE IN <<x>> \o SetToSeq(S \ {x})

RECURSIVE Concat(_)
Concat(ss) == IF ss = <<>> THEN <<>> ELSE Head(ss) \o Concat(Tail(ss))

\* an Item; size_formatted, last_accessed and description are not modelled
Item(path, size, risk, category, name) ==
    [path |-> path, size |-> size, risk |-> risk, category |-> category, name |-> name]

\* the common block: size the directory and report it when it is larger than MIN_ITEM_SIZE
ItemIfLarge(path, risk, category, name) ==
    IF dir_exists(path) /\ get_dir_size_fast(path) > MIN_ITEM_SIZE
    THEN << Item(path, get_dir_size_fast(path), risk, category, name) >>
    ELSE <<>>

RECURSIVE SumSizes(_)
SumSizes(items) == IF items = <<>> THEN 0 ELSE Head(items).size + SumSizes(Tail(items))

-----------------------------------------------------------------------------
(* scan_browser_caches *)

browsers == <<
    [name |-> "Chrome", base |-> J(LIBRARY, <<"Application Support", "Google", "Chrome">>)],
    [name |-> "Chrome Canary",
     base |-> J(LIBRARY, <<"Application Support", "Google", "Chrome Canary">>)],
    [name |-> "Firefox", base |-> J(LIBRARY, <<"Application Support", "Firefox", "Profiles">>)],
    [name |-> "Safari", base |-> J(LIBRARY, <<"Caches", "com.apple.Safari">>)],
    [name |-> "Edge", base |-> J(LIBRARY, <<"Application Support", "Microsoft Edge">>)],
    [name |-> "Brave",
     base |-> J(LIBRARY, <<"Application Support", "BraveSoftware", "Brave-Browser">>)] >>

firefox_cache_dirs == <<"cache2", "startupCache", "thumbnails">>

chrome_cache_subdirs == <<"Cache", "Code Cache", "GPUCache", "Service Worker",
                          "ShaderCache", "GrShaderCache", "ScriptCache">>

\* "com.apple.Safari.SafeBrowsing": a name that starts with the name "com.apple.Safari"
SafeBrowsingName == <<"com.apple.Safari", ".SafeBrowsing">>
safari_websitedata == PathJoin(J(LIBRARY, <<"Caches">>), <<SafeBrowsingName>>)

\* lines 347-374
FirefoxItems(b) ==
    Concat([i \in 1..Len(SetToSeq(listdir(b.base))) |->
        LET profile_dir == SetToSeq(listdir(b.base))[i]
        IN  Concat([k \in 1..Len(firefox_cache_dirs) |->
                ItemIfLarge(PathJoin(b.base, <<profile_dir, <<firefox_cache_dirs[k]>> >>),
                            "safe", "browser_cache",
                            <<b.name, " Cache (">> \o profile_dir \o <<")">>)])])

\* lines 376-409
SafariItems(b) ==
    ItemIfLarge(b.base, "safe", "browser_cache", <<b.name, " Cache">>)
    \o ItemIfLarge(safari_websitedata, "safe", "browser_cache", <<"Safari Safe Browsing Data">>)

\* lines 411-442: "Default" and every directory whose name starts with "Profile "
ChromeItems(b) ==
    LET profiles == << <<"Default">> >>
                    \o SetToSeq({ d \in listdir(b.base) : StartsWith(d, <<"Profile ">>) })
    IN  Concat([i \in 1..Len(profiles) |->
            Concat([k \in 1..Len(chrome_cache_subdirs) |->
                ItemIfLarge(PathJoin(b.base, <<profiles[i], <<chrome_cache_subdirs[k]>> >>),
                            "safe", "browser_cache",
                            <<b.name, " ", chrome_cache_subdirs[k], " (">> \o profiles[i]
                                \o <<")">>)])])

\* lines 341-442: the items of one browser
BrowserItems(b) ==
    IF ~dir_exists(b.base) THEN <<>>
    ELSE IF b.name = "Firefox" THEN FirefoxItems(b)
    ELSE IF b.name = "Safari" THEN SafariItems(b)
    ELSE ChromeItems(b)

scan_browser_items == Concat([i \in 1..Len(browsers) |-> BrowserItems(browsers[i])])

-----------------------------------------------------------------------------
(* scan_app_caches, scan_system_logs *)

AppSupport(names) == J(LIBRARY, <<"Application Support">> \o names)

app_targets == <<
    [name |-> "Spotify Cache", path |-> J(LIBRARY, <<"Caches", "com.spotify.client">>), risk |-> "safe"],
    [name |-> "Spotify App Support", path |-> AppSupport(<<"Spotify", "PersistentCache">>), risk |-> "safe"],
    [name |-> "Slack Cache", path |-> AppSupport(<<"Slack", "Cache">>), risk |-> "safe"],
    [name |-> "Slack Service Worker", path |-> AppSupport(<<"Slack", "Service Worker">>), risk |-> "safe"],
    [name |-> "Discord Cache", path |-> AppSupport(<<"discord", "Cache">>), risk |-> "safe"],
    [name |-> "Discord Code Cache", path |-> AppSupport(<<"discord", "Code Cache">>), risk |-> "safe"],
    [name |-> "Adobe Creative Cloud Cache", path |-> J(LIBRARY, <<"Caches", "Adobe">>), risk |-> "safe"],
    [name |-> "Adobe CC App Data", path |-> AppSupport(<<"Adobe", "Common", "Media Cache Files">>), risk |-> "safe"],
    [name |-> "Xcode DerivedData", path |-> J(LIBRARY, <<"Developer", "Xcode", "DerivedData">>), risk |-> "safe"],
    [name |-> "Xcode Archives", path |-> J(LIBRARY, <<"Developer", "Xcode", "Archives">>), risk |-> "caution"],
    [name |-> "Xcode Device Logs", path |-> J(LIBRARY, <<"Developer", "Xcode", "iOS DeviceSupport">>), risk |-> "safe"],
    [name |-> "Xcode Simulators", path |-> J(LIBRARY, <<"Developer", "CoreSimulator", "Devices">>), risk |-> "caution"],
    [name |-> "Xcode Caches", path |-> J(LIBRARY, <<"Caches", "com.apple.dt.Xcode">>), risk |-> "safe"],
    [name |-> "VS Code Cache", path |-> AppSupport(<<"Code", "Cache">>), risk |-> "safe"],
    [name |-> "VS Code Cached Extensions", path |-> AppSupport(<<"Code", "CachedExtensionVSIXs">>), risk |-> "safe"],
    [name |-> "Teams Cache", path |-> AppSupport(<<"Microsoft Teams", "Cache">>), risk |-> "safe"],
    [name |-> "Zoom Cache", path |-> AppSupport(<<"zoom.us", "data">>), risk |-> "safe"] >>

log_targets == <<
    [name |-> "User Logs", path |-> J(LIBRARY, <<"Logs">>), risk |-> "safe"],
    [name |-> "System Logs", path |-> <<Sep, "var", Sep, "log">>, risk |-> "caution"],
    [name |-> "ASL Logs", path |-> <<Sep, "private", Sep, "var", Sep, "log", Sep, "asl">>, risk |-> "safe"],
    [name |-> "Diagnostic Reports", path |-> J(LIBRARY, <<"Logs", "DiagnosticReports">>), risk |-> "safe"],
    [name |-> "CoreSimulator Logs", path |-> J(LIBRARY, <<"Logs", "CoreSimulator">>), risk |-> "safe"] >>

\* lines 689-707 and 734-752: the loop over a table of (name, path, description, risk)
TableItems(targets, category) ==
    Concat([i \in 1..Len(targets) |->
        ItemIfLarge(targets[i].path, targets[i].risk, category, <<targets[i].name>>)])

scan_app_items == TableItems(app_targets, "app_cache")

scan_log_items == TableItems(log_targets, "system_logs")

-----------------------------------------------------------------------------
(* scan_mail_and_backups *)

mail_downloads_container ==
    J(LIBRARY, <<"Containers", "com.apple.mail", "Data", "Library", "Mail Downloads">>)
mail_downloads_library == J(LIBRARY, <<"Mail Downloads">>)
ios_backups == J(LIBRARY, <<"Application Support", "MobileSync", "Backup">>)
trash_path == J(HOME, <<".Trash">>)
time_machine_path == <<Sep, "System", Sep, "Volumes", Sep, "Data", Sep, ".TimeMachine">>

\* how subprocess.run(["tmutil", "listlocalsnapshots", "/"]) may end: an exception
\* (missing binary, timeout, OSError), a non-zero exit, no output, or lines of output
TmutilOutcomes == {"raises", "nonzero", "empty", "snapshots"}

\* lines 772-792
MailDownloadsItems ==
    LET mail_downloads == IF ~dir_exists(mail_downloads_container)
                          THEN mail_downloads_library ELSE mail_downloads_container
    IN  ItemIfLarge(mail_downloads, "safe", "mail_backups", <<"Mail Downloads">>)

\* lines 794-816
SnapshotItems(tmutil) ==
    IF tmutil = "snapshots"
    THEN << Item(time_machine_path, 0, "caution", "mail_backups", <<"Time Machine Snapshots">>) >>
    ELSE <<>>

\* lines 818-866
BackupAndTrashItems ==
    ItemIfLarge(ios_backups, "caution", "mail_backups", <<"iOS Device Backups">>)
    \o ItemIfLarge(trash_path, "safe", "mail_backups", <<"Trash">>)

scan_mail_items(tmutil) == MailDownloadsItems \o SnapshotItems(tmutil) \o BackupAndTrashItems

-----------------------------------------------------------------------------
(* scan_dev_caches *)

\* how subprocess.run(["docker", "system", "df", ...]) may end
DockerOutcomes == {"raises", "nonzero", "empty", "output"}

docker_vm == J(LIBRARY, <<"Containers", "com.docker.docker", "Data">>)
npm_cache == J(HOME, <<".npm">>)
pip_cache == J(LIBRARY, <<"Caches", "pip">>)
homebrew_cache == J(LIBRARY, <<"Caches", "Homebrew">>)
cargo_registry == J(HOME, <<".cargo", "registry">>)
go_cache_home == J(HOME, <<"go", "pkg", "mod", "cache">>)

\* os.environ.get("GOPATH", "")
GOPATH == <<Sep, "opt", Sep, "gopath">>

node_search_paths == <<
    J(HOME, <<"Desktop">>), J(HOME, <<"Documents">>), J(HOME, <<"Projects">>),
    J(HOME, <<"Developer">>), J(HOME, <<"dev">>), J(HOME, <<"code">>),
    J(HOME, <<"repos">>), J(HOME, <<"workspace">>), J(HOME, <<"src">>) >>

\* lines 462-499
DockerItems(docker) ==
    IF docker = "output"
    THEN ItemIfLarge(docker_vm, "caution", "dev_cache", <<"Docker Desktop Data">>)
    ELSE <<>>

\* every directory of the filesystem: the directories that hold files and their ancestors
Directories ==
    UNION { { SubSeq(x, 1, k) : k \in { j \in 2..Len(x) : j = Len(x) \/ x[j + 1] = Sep } } :
            x \in DOMAIN dirs }

\* the names of the directories on the way from root down to x (x itself included)
NamesBelow(root, x) ==
    IF x = root THEN <<>> ELSE Components(SubSeq(x, Len(root) + 2, Len(x)))

\* lines 563-566: the directories os.walk is kept from descending into
Pruned(name) ==
    \/ StartsWith(name, <<".">>)
    \/ name \in { <<"node_modules">>, <<"__pycache__">>, <<".git">>, <<"venv">>, <<".venv">> }

\* lines 538-566: the node_modules directories the walk of search_root reports: those
\* directly inside a directory that the walk reaches (no pruned name on the way) at
\* depth <= 5
WalkFinds(search_root) ==
    { nm \in Directories :
        /\ Basename(nm) = <<"node_modules">>
        /\ Dirname(nm) = search_root \/ IsUnder(search_root, Dirname(nm))
        /\ LET names == NamesBelow(search_root, Dirname(nm))
           IN  /\ Len(names) <= 5
               /\ \A i \in DOMAIN names : ~Pruned(names[i]) }

\* lines 533-568
NodeModulesItems ==
    Concat([r \in 1..Len(node_search_paths) |->
        IF ~dir_exists(node_search_paths[r]) THEN <<>>
        ELSE LET found == SetToSeq(WalkFinds(node_search_paths[r]))
             IN  Concat([i \in 1..Len(found) |->
                     ItemIfLarge(found[i], "safe", "dev_cache",
                                 <<"node_modules (">> \o Basename(Dirname(found[i]))
                                     \o <<")">>)])])

\* lines 627-649
GoItems ==
    LET go_cache == IF ~dir_exists(go_cache_home) /\ GOPATH # <<>>
                    THEN J(GOPATH, <<"pkg", "mod", "cache">>) ELSE go_cache_home
    IN  ItemIfLarge(go_cache, "safe", "dev_cache", <<"Go Module Cache">>)

scan_dev_items(docker) ==
    DockerItems(docker)
    \o ItemIfLarge(npm_cache, "safe", "dev_cache", <<"NPM Cache (~/.npm)">>)
    \o NodeModulesItems
    \o ItemIfLarge(pip_cache, "safe", "dev_cache", <<"Python pip Cache">>)
    \o ItemIfLarge(homebrew_cache, "safe", "dev_cache", <<"Homebrew Cache">>)
    \o ItemIfLarge(cargo_registry, "safe", "dev_cache", <<"Cargo Registry Cache">>)
    \o GoItems

-----------------------------------------------------------------------------
(* scan_general_caches *)

caches_root == J(LIBRARY, <<"Caches">>)

already_scanned == {
    <<"com.spotify.client">>, <<"com.apple.Safari">>, SafeBrowsingName,
    <<"Adobe">>, <<"pip">>, <<"Homebrew">>, <<"com.apple.dt.Xcode">>,
    <<"com.google.Chrome">>, <<"com.microsoft.Edge">>, <<"com.brave.Browser">> }

\* lines 894-921: only caches larger than 5 MB are reported
scan_general_items ==
    IF ~dir_exists(caches_root) THEN <<>>
    ELSE LET entries == SetToSeq({ e \in listdir(caches_root) :
                            ~\E prefix \in already_scanned : StartsWith(e, prefix) \/ e = prefix })
         IN  Concat([i \in 1..Len(entries) |->
                 LET entry_path == PathJoin(caches_root, <<entries[i]>>)
                 IN  IF get_dir_size_fast(entry_path) > 5 * 1024 * 1024
                     THEN << Item(entry_path, get_dir_size_fast(entry_path), "safe",
                                  "general_cache", <<"Cache: ">> \o entries[i]) >>
                     ELSE <<>>])

-----------------------------------------------------------------------------
(* run_scan *)

\* the most directories holding files on the scanned filesystem
MaxDirs == 2

\* the bytes a directory may hold: the least reported size is not reached, or every
\* threshold is passed
SizeChoices == { MIN_ITEM_SIZE, 5 * 1024 * 1024 + 1 }

\* the directories that may hold files: for every phase some of those it probes, and
\* some it must pass over
ScanDirChoices ==
    { PathJoin(browsers[1].base, << <<"Default">>, <<chrome_cache_subdirs[1]>> >>),
      PathJoin(browsers[1].base, << <<"Profile ", "1">>, <<chrome_cache_subdirs[2]>> >>),
      J(browsers[3].base, <<"x.default", firefox_cache_dirs[1]>>),
      browsers[4].base,
      safari_websitedata,
      app_targets[1].path, app_targets[3].path, app_targets[10].path,
      log_targets[2].path, log_targets[4].path,
      mail_downloads_container, ios_backups, trash_path,
      docker_vm, npm_cache,
      J(GOPATH, <<"pkg", "mod", "cache">>),
      J(HOME, <<"Projects", "app", "node_modules">>),
      PathJoin(J(HOME, <<"dev">>), << <<".", "hidden">>, <<"node_modules">> >>),
      J(HOME, <<"src", "a", "b", "c", "d", "e", "node_modules">>),
      J(HOME, <<"src", "a", "b", "c", "d", "e", "f", "node_modules">>),
      J(caches_root, <<"com.example.app">>),
      PathJoin(caches_root, << <<"com.google.Chrome", ".helper">> >>) }

RECURSIVE SubsetsUpTo(_, _)
SubsetsUpTo(U, n) ==
    IF n = 0 THEN { {} }
    ELSE LET smaller == SubsetsUpTo(U, n - 1)
         IN  smaller \cup { s \cup {x} : s \in smaller, x \in U }

\* ProgressTracker.__init__: the counters
NewTracker == [files_processed |-> 0, bytes_scanned |-> 0, items_found |-> 0]

\* emit (lines 156-170): an item event gets the camelCase alias of its size
emit(event_dict) ==
    IF event_dict.event = "item"
    THEN [event |-> "item", path |-> event_dict.path, size |-> event_dict.size,
          risk |-> event_dict.risk, category |-> event_dict.category,
          name |-> event_dict.name, sizeBytes |-> event_dict.size]
    ELSE event_dict

ProgressEvent(phase) == emit([event |-> "progress", phase |-> phase])

ItemEvents(items) ==
    [i \in 1..Len(items) |->
        emit([event |-> "item", path |-> items[i].path, size |-> items[i].size,
              risk |-> items[i].risk, category |-> items[i].category,
              name |-> items[i].name])]

FoundEvent(items, category, name) ==
    emit([event |-> "found", category |-> category, name |-> name,
          count |-> Len(items), total_bytes |-> SumSizes(items)])

FoundFirst(events, items, category, name) ==
    (IF items # <<>> THEN << FoundEvent(items, category, name) >> ELSE <<>>) \o events

\* the end of every scan_* function: the events of its loop, then `if items:` the
\* found event (lines 444-453, 651-660, 709-718, 754-763, 868-877, 923-932)
WithFound(events, items, category, name) ==
    events \o (IF items # <<>> THEN << FoundEvent(items, category, name) >> ELSE <<>>)

\* ProgressTracker.update over one scan_* function: every item passed as
\* update(path, files=1, bytes_added=size) is counted. The progress lines update writes
\* when EMIT_INTERVAL has passed are a matter of the clock and are left out of `out`.
TrackerAfter(t, tracked) ==
    [files_processed |-> t.files_processed + Len(tracked),
     bytes_scanned |-> t.bytes_scanned + SumSizes(tracked),
     items_found |-> t.items_found + Len(tracked)]

\* one scan_* function called from run_scan: `before` are the lines run_scan itself
\* writes first, `items` the function's items, `tracked` those it passed to
\* tracker.update
PhaseStep(before, items, tracked, category, name, next) ==
    /\ tracker' = TrackerAfter(tracker, tracked)
    /\ out' = out \o before \o WithFound(ItemEvents(items), items, category, name)
    /\ all_items' = all_items \o items
    /\ spc' = next
    /\ UNCHANGED dirs
    /\ UNCHANGED notScanVars

ScanStart ==
    /\ dirs \in UNION { [S -> SizeChoices] : S \in SubsetsUpTo(ScanDirChoices, MaxDirs) }
    /\ spc = "browser"
    /\ out = <<>>
    /\ all_items = <<>>
    /\ tracker = NewTracker

\* run_scan lines 2046-2069 with scan_browser_caches
ScanBrowserCaches ==
    /\ spc = "browser"
    /\ PhaseStep(<< ProgressEvent("fast") >>, scan_browser_items, scan_browser_items,
                 "browser_cache", "Browser Caches", "app")

\* run_scan line 2070 with scan_app_caches
ScanAppCaches ==
    /\ spc = "app"
    /\ PhaseStep(<<>>, scan_app_items, scan_app_items,
                 "app_cache", "Application Caches", "logs")

\* run_scan line 2071 with scan_system_logs
ScanSystemLogs ==
    /\ spc = "logs"
    /\ PhaseStep(<<>>, scan_log_items, scan_log_items,
                 "system_logs", "System Logs", "mail")

\* run_scan line 2072 with scan_mail_and_backups; the snapshot item is not passed to
\* tracker.update
ScanMailAndBackups ==
    /\ spc = "mail"
    /\ \E tmutil \in TmutilOutcomes :
        PhaseStep(<<>>, scan_mail_items(tmutil), MailDownloadsItems \o BackupAndTrashItems,
                  "mail_backups", "Mail, Backups & Trash", "dev")

\* run_scan lines 2074-2086 with scan_dev_caches
ScanDevCaches ==
    /\ spc = "dev"
    /\ \E docker \in DockerOutcomes :
        PhaseStep(<< ProgressEvent("deep") >>, scan_dev_items(docker), scan_dev_items(docker),
                  "dev_cache", "Developer Caches", "general")

\* run_scan line 2087 with scan_general_caches
ScanGeneralCaches ==
    /\ spc = "general"
    /\ PhaseStep(<<>>, scan_general_items, scan_general_items,
                 "general_cache", "Other Application Caches", "finish")

\* list.sort(key=size, reverse=True): stable, largest first
RECURSIVE InsertBySize(_, _)
InsertBySize(sorted, x) ==
    IF sorted = <<>> THEN <<x>>
    ELSE IF Head(sorted).size >= x.size THEN <<Head(sorted)>> \o InsertBySize(Tail(sorted), x)
    ELSE <<x>> \o sorted

RECURSIVE SortBySize(_)
SortBySize(items) ==
    IF items = <<>> THEN <<>>
    ELSE InsertBySize(SortBySize(SubSeq(items, 1, Len(items) - 1)), items[Len(items)])

\* run_scan lines 2089-2173: scan_full_disk and detect_stale_projects write their
\* progress lines, the items are sorted and the complete event is written (of its
\* payload, the item list and its totals are modelled)
FinishScan ==
    /\ spc = "finish"
    /\ all_items' = SortBySize(all_items)
    /\ out' = out \o << ProgressEvent("full_map"), ProgressEvent("stale_detect"),
                         emit([event |-> "complete",
                               total_items |-> Len(all_items),
                               total_bytes |-> SumSizes(all_items),
                               items |-> SortBySize(all_items)]) >>
    /\ spc' = "done"
    /\ UNCHANGED <<dirs, tracker>>
    /\ UNCHANGED notScanVars

ScanInit == ScanStart /\ PurgeIdle /\ ClassIdle /\ SwarmIdle /\ StoreIdle /\ PredictIdle /\ RecIdle /\ SignIdle /\ DaemonIdle /\ FaultIdle /\ ToolsIdle /\ DiskIdle /\ StaleIdle /\ WalkIdle /\ PoolIdle /\ LatchIdle /\ HistIdle

ScanNext ==
    \/ ScanBrowserCaches
    \/ ScanAppCaches
    \/ ScanSystemLogs
    \/ ScanMailAndBackups
    \/ ScanDevCaches
    \/ ScanGeneralCaches
    \/ FinishScan

SpecScan == ScanInit /\ [][ScanNext]_vars

-----------------------------------------------------------------------------
(* properties of run_scan *)

ScanDone == spc = "done"

\* C7: every item a scanner phase produces carries the risk that classify_risk
\* computes for the item's path.
C7_RiskIsClassified ==
    \A i \in DOMAIN all_items : all_items[i].risk = classify_risk(all_items[i].path)

IsAbsolute(path) == path # <<>> /\ path[1] = Sep

\* C8: every item in the items list of a complete event has a size of at least 1024
\* bytes and an absolute path.
C8_CompleteItemsLargeAbsolute ==
    \A k \in DOMAIN out :
        out[k].event = "complete" =>
            \A i \in DOMAIN out[k].items :
                out[k].items[i].size >= 1024 /\ IsAbsolute(out[k].items[i].path)

Categories ==
    { "browser_cache", "app_cache", "system_logs", "mail_backups", "dev_cache",
      "general_cache" }

IsItemOf(e, c) == e.event = "item" /\ e.category = c

IsFoundOf(e, c) == e.event = "found" /\ e.category = c

ItemsBefore(f, c) == SelectSeq(SubSeq(out, 1, f - 1), LAMBDA e : IsItemOf(e, c))

\* C10: in the lines of one scan, for every category, no item event of the category
\* follows the category's found event, there is at most one found event per category,
\* its count and total_bytes are the number and the summed size of the category's item
\* events before it, and the complete event is written once, after every found event,
\* as the last line of a finished scan.
C10_EventOrder ==
    /\ \A c \in Categories :
        \A f \in DOMAIN out :
            IsFoundOf(out[f], c) =>
                /\ \A k \in DOMAIN out : IsItemOf(out[k], c) => k < f
                /\ \A g \in DOMAIN out : IsFoundOf(out[g], c) => g = f
                /\ out[f].count = Len(ItemsBefore(f, c))
                /\ out[f].total_bytes = SumSizes(ItemsBefore(f, c))
    /\ \A k \in DOMAIN out :
        out[k].event = "complete" =>
            /\ k = Len(out)
            /\ ScanDone
    /\ ScanDone => out # <<>> /\ out[Len(out)].event = "complete"

\* a finished scan that found several items in one category and items in another
C10_Witness ==
    /\ ScanDone
    /\ \E f, g \in DOMAIN out :
        /\ out[f].event = "found" /\ out[f].count >= 2
        /\ out[g].event = "found" /\ out[g].category # out[f].category

-----------------------------------------------------------------------------
(* swarm_scanner.py: emit, _flush_item_buffer, the agents and deploy_swarm.       *)
(* A thread is at a position pc; inside emit it keeps the event, the position it  *)
(* returns to and the local `batch`.  stdout stays open (no BrokenPipeError).     *)

\* the most scan roots that exist, one Explorer each; an Explorer reports at most one
\* item and one deep-analysis target
MaxRoots == 2

\* the most deep-analysis targets under the scan roots, one Analyzer each
MaxDeep == 1

Main == <<"main", 0>>
Explorers == { <<"Exp", i>> : i \in 1..MaxRoots }
Analyzers == { <<"Ana", i>> : i \in 1..MaxDeep }
Threads == {Main} \cup Explorers \cup Analyzers

NoThread == <<>>
NoItem == [src |-> "none", n |-> 0]

\* the item dict that worker t builds
ItemOf(t) == [src |-> t[1], n |-> t[2]]

Event(e) == [event |-> e, item |-> NoItem]
ItemEvent(it) == [event |-> "item", item |-> it]

\* a line on stdout; `by` records the thread that wrote it.  Of the lines written, stdout
\* keeps those that carry items: the batch and the complete events.
Line(e, items, t) == [event |-> e, items |-> items, by |-> t]

NewThread(pc) ==
    [pc |-> pc, evt |-> Event("none"), ret |-> "none", force |-> FALSE,
     then_write |-> FALSE, batch |-> <<>>, items |-> <<>>, targets |-> <<>>]

\* lines 74-78 of _flush_item_buffer(force=True): the buffer is read without the lock
Forced == IF item_buffer = <<>> THEN "write" ELSE "flush_acquire"

\* a thread calls emit(evt) and continues at ret: an item goes to the buffer (line 102),
\* every other event forces a flush and is then written (lines 107-116).  The steps of
\* a thread up to its next access to the lock or to stdout are taken as one.
Emitting(rec, evt, ret) ==
    [rec EXCEPT !.evt = evt, !.ret = ret,
                !.pc = IF evt.event = "item" THEN "append_acquire" ELSE Forced,
                !.force = evt.event # "item",
                !.then_write = evt.event # "item"]

Emit(t, evt, ret) == [thr EXCEPT ![t] = Emitting(thr[t], evt, ret)]

\* emit returns to its caller; its locals are gone
Return(rec) == [NewThread(rec.ret) EXCEPT !.items = rec.items, !.targets = rec.targets]

\* _flush_item_buffer returns: emit goes on to write its event, or returns itself
Returned(t) == IF thr[t].then_write THEN [thr[t] EXCEPT !.pc = "write", !.batch = <<>>]
               ELSE Return(thr[t])

\* line 102: with _emit_lock
AppendAcquire(t) ==
    /\ thr[t].pc = "append_acquire"
    /\ emit_lock = NoThread
    /\ emit_lock' = t
    /\ thr' = [thr EXCEPT ![t].pc = "append"]
    /\ UNCHANGED <<item_buffer, stdout, writing, hive>>
    /\ UNCHANGED notSwarmVars

\* lines 103-104: the item is buffered, the lock released, _flush_item_buffer() called
AppendItem(t) ==
    /\ thr[t].pc = "append"
    /\ item_buffer' = Append(item_buffer, thr[t].evt.item)
    /\ emit_lock' = NoThread
    /\ thr' = [thr EXCEPT ![t].pc = "flush_check"]
    /\ UNCHANGED <<stdout, writing, hive>>
    /\ UNCHANGED notSwarmVars

\* lines 74-78 of _flush_item_buffer() called by emit for an item: the buffer is read
\* without the lock; without force the flush waits for _ITEM_FLUSH_INTERVAL, which
\* `elapsed` says
FlushCheck(t) ==
    /\ thr[t].pc = "flush_check"
    /\ \E elapsed \in BOOLEAN :
        thr' = [thr EXCEPT ![t] =
                    IF item_buffer = <<>> THEN Returned(t)
                    ELSE IF thr[t].force \/ elapsed THEN [@ EXCEPT !.pc = "flush_acquire"]
                    ELSE Returned(t)]
    /\ UNCHANGED <<emit_lock, item_buffer, stdout, writing, hive>>
    /\ UNCHANGED notSwarmVars

\* line 79: with _emit_lock
FlushAcquire(t) ==
    /\ thr[t].pc = "flush_acquire"
    /\ emit_lock = NoThread
    /\ emit_lock' = t
    /\ thr' = [thr EXCEPT ![t].pc = "flush_locked"]
    /\ UNCHANGED <<item_buffer, stdout, writing, hive>>
    /\ UNCHANGED notSwarmVars

BufferKept(buffer) == buffer

\* line 83: _item_buffer = []
BufferAfterTake(buffer) == <<>>

\* lines 80-84, to the end of the with block
FlushLocked(t) ==
    /\ thr[t].pc = "flush_locked"
    /\ emit_lock' = NoThread
    /\ IF item_buffer = <<>>
       THEN /\ thr' = [thr EXCEPT ![t] = Returned(t)]
            /\ UNCHANGED item_buffer
       ELSE /\ thr' = [thr EXCEPT ![t] = [@ EXCEPT !.pc = "flush_write",
                                                   !.batch = item_buffer]]
            /\ item_buffer' = BufferAfterTake(item_buffer)
    /\ UNCHANGED <<stdout, writing, hive>>
    /\ UNCHANGED notSwarmVars

\* line 86: the thread enters sys.stdout.write with the batch line
FlushWrite(t) ==
    /\ thr[t].pc = "flush_write"
    /\ writing' = writing \cup {t}
    /\ thr' = [thr EXCEPT ![t].pc = "flush_written"]
    /\ UNCHANGED <<emit_lock, item_buffer, stdout, hive>>
    /\ UNCHANGED notSwarmVars

\* lines 86-87: the batch line is on stdout; _flush_item_buffer returns
FlushWritten(t) ==
    /\ thr[t].pc = "flush_written"
    /\ stdout' = Append(stdout, Line("batch", thr[t].batch, t))
    /\ writing' = writing \ {t}
    /\ thr' = [thr EXCEPT ![t] = Returned(t)]
    /\ UNCHANGED <<emit_lock, item_buffer, hive>>
    /\ UNCHANGED notSwarmVars

\* lines 110 and 115: the thread enters sys.stdout.write with its event line
Write(t) ==
    /\ thr[t].pc = "write"
    /\ writing' = writing \cup {t}
    /\ thr' = [thr EXCEPT ![t].pc = "written"]
    /\ UNCHANGED <<emit_lock, item_buffer, stdout, hive>>
    /\ UNCHANGED notSwarmVars

\* lines 110-112 and 115-116: the line is on stdout; emit returns
Written(t) ==
    /\ thr[t].pc = "written"
    /\ stdout' = IF thr[t].evt.event = "complete"
                 THEN Append(stdout, Line("complete", hive.all_items, t))
                 ELSE stdout
    /\ writing' = writing \ {t}
    /\ thr' = [thr EXCEPT ![t] = Return(thr[t])]
    /\ UNCHANGED <<emit_lock, item_buffer, hive>>
    /\ UNCHANGED notSwarmVars

\* the deep-analysis targets that the Explorers have come upon so far
TargetsFound ==
    Len(hive.deep_targets) + Cardinality({ e \in Explorers : thr[e].targets # <<>> })

\* agent_worker_explorer lines 160-217: the walk finds an item or not and a deep-analysis
\* target or not, and the agent's last agent_status event is emitted (the agent_status
\* event of line 215, after an exception, is not modelled)
ExplorerWalk(t) ==
    /\ t \in Explorers
    /\ thr[t].pc = "walk"
    /\ \E found \in BOOLEAN, target \in BOOLEAN :
        /\ target => TargetsFound < MaxDeep
        /\ thr' = [Emit(t, Event("agent_status"), "done")
                    EXCEPT ![t].items = IF found THEN << ItemOf(t) >> ELSE <<>>,
                           ![t].targets = IF target THEN << "target" >> ELSE <<>>]
    /\ UNCHANGED <<emit_lock, item_buffer, stdout, writing, hive>>
    /\ UNCHANGED notSwarmVars

\* agent_worker_analyzer lines 228-286: the target is large enough for an item or not,
\* and the agent's last agent_status event is emitted (the insight event of line 273
\* and the agent_status event of line 284, after an exception, are not modelled)
AnalyzerRun(t) ==
    /\ t \in Analyzers
    /\ thr[t].pc = "analyze"
    /\ \E large \in BOOLEAN :
        thr' = [Emit(t, Event("agent_status"), "done")
                    EXCEPT ![t].items = IF large THEN << ItemOf(t) >> ELSE <<>>]
    /\ UNCHANGED <<emit_lock, item_buffer, stdout, writing, hive>>
    /\ UNCHANGED notSwarmVars

\* ProgressTracker.update (lines 131-148): a progress event is emitted by the first call
\* (last_emit_time is 0) and whenever EMIT_INTERVAL has passed, which `tick` says.
\* The result of a future that has been read is not kept in the model.
UpdateThen(h, next) ==
    \E tick \in BOOLEAN :
        IF h.last_emit_time = 0 \/ tick
        THEN /\ thr' = [t \in Threads |->
                          IF t \in h.consumed THEN NewThread("done")
                          ELSE Emit(Main, Event("progress"), next)[t]]
             /\ hive' = [h EXCEPT !.last_emit_time = 1]
        ELSE /\ thr' = [t \in Threads |->
                          IF t \in h.consumed THEN NewThread("done")
                          ELSE IF t = Main THEN [thr[t] EXCEPT !.pc = next]
                          ELSE thr[t]]
             /\ hive' = h

\* deploy_swarm lines 291-311
DeploySwarm ==
    /\ thr[Main].pc = "deploy"
    /\ thr' = Emit(Main, Event("swarm_init"), "submit")
    /\ UNCHANGED <<emit_lock, item_buffer, stdout, writing, hive>>
    /\ UNCHANGED notSwarmVars

\* lines 314-318 and 158: one Explorer per scan root that exists; with fewer calls than
\* max_workers = 4 each gets a thread at once and emits its first agent_status event
SubmitExplorers ==
    /\ thr[Main].pc = "submit"
    /\ thr' = [t \in Threads |->
                 IF t = Main THEN [thr[t] EXCEPT !.pc = "explorers"]
                 ELSE IF t \in Explorers /\ t[2] <= hive.roots
                      THEN Emitting(thr[t], Event("agent_status"), "walk")
                 ELSE thr[t]]
    /\ UNCHANGED <<emit_lock, item_buffer, stdout, writing, hive>>
    /\ UNCHANGED notSwarmVars

Submitted(W) == { w \in W : thr[w].pc # "idle" }

\* lines 320-326: as_completed yields a finished Explorer; its results are taken over
ExplorerCompleted ==
    /\ thr[Main].pc = "explorers"
    /\ \E e \in Submitted(Explorers) \ hive.consumed :
        /\ thr[e].pc = "done"
        /\ UpdateThen([hive EXCEPT !.all_items = @ \o thr[e].items,
                                   !.deep_targets = @ \o thr[e].targets,
                                   !.consumed = @ \cup {e},
                                   !.todo = thr[e].items],
                      "items")
    /\ UNCHANGED <<emit_lock, item_buffer, stdout, writing>>
    /\ UNCHANGED notSwarmVars

\* lines 329-330
EmitItems ==
    /\ thr[Main].pc = "items"
    /\ IF hive.todo = <<>>
       THEN /\ thr' = [thr EXCEPT ![Main].pc = "explorers"]
            /\ UNCHANGED hive
       ELSE /\ thr' = Emit(Main, ItemEvent(Head(hive.todo)), "items")
            /\ hive' = [hive EXCEPT !.todo = Tail(@)]
    /\ UNCHANGED <<emit_lock, item_buffer, stdout, writing>>
    /\ UNCHANGED notSwarmVars

\* lines 320 and 334: every future has been yielded, the executor is shut down
ExplorersDone ==
    /\ thr[Main].pc = "explorers"
    /\ Submitted(Explorers) \subseteq hive.consumed
    /\ thr' = Emit(Main, Event("swarm_phase"), "submit_analyzers")
    /\ UNCHANGED <<emit_lock, item_buffer, stdout, writing, hive>>
    /\ UNCHANGED notSwarmVars

\* lines 337-342 and 226: one Analyzer per deep-analysis target, each on a thread at once
SubmitAnalyzers ==
    /\ thr[Main].pc = "submit_analyzers"
    /\ thr' = [t \in Threads |->
                 IF t = Main THEN [thr[t] EXCEPT !.pc = "analyzers"]
                 ELSE IF t \in Analyzers /\ t[2] <= Len(hive.deep_targets)
                      THEN Emitting(thr[t], Event("agent_status"), "analyze")
                 ELSE thr[t]]
    /\ UNCHANGED <<emit_lock, item_buffer, stdout, writing, hive>>
    /\ UNCHANGED notSwarmVars

\* lines 344-349: as_completed yields a finished Analyzer; its item, if any, is emitted
AnalyzerCompleted ==
    /\ thr[Main].pc = "analyzers"
    /\ \E a \in Submitted(Analyzers) \ hive.consumed :
        /\ thr[a].pc = "done"
        /\ hive' = [hive EXCEPT !.all_items = @ \o thr[a].items, !.consumed = @ \cup {a}]
        /\ thr' = [(IF thr[a].items = <<>> THEN thr
                    ELSE Emit(Main, ItemEvent(thr[a].items[1]), "update"))
                      EXCEPT ![a] = NewThread("done")]
    /\ UNCHANGED <<emit_lock, item_buffer, stdout, writing>>
    /\ UNCHANGED notSwarmVars

\* line 350
TrackerUpdate ==
    /\ thr[Main].pc = "update"
    /\ UpdateThen(hive, "analyzers")
    /\ UNCHANGED <<emit_lock, item_buffer, stdout, writing>>
    /\ UNCHANGED notSwarmVars

\* lines 344 and 355: every Analyzer has been yielded; _flush_item_buffer(force=True)
AnalyzersDone ==
    /\ thr[Main].pc = "analyzers"
    /\ Submitted(Analyzers) \subseteq hive.consumed
    /\ thr' = [thr EXCEPT ![Main] = [@ EXCEPT !.pc = IF item_buffer = <<>> THEN "complete"
                                                    ELSE "flush_acquire",
                                              !.force = TRUE, !.then_write = FALSE,
                                              !.ret = "complete"]]
    /\ UNCHANGED <<emit_lock, item_buffer, stdout, writing, hive>>
    /\ UNCHANGED notSwarmVars

\* lines 357-372
EmitComplete ==
    /\ thr[Main].pc = "complete"
    /\ thr' = Emit(Main, Event("complete"), "finished")
    /\ UNCHANGED <<emit_lock, item_buffer, stdout, writing, hive>>
    /\ UNCHANGED notSwarmVars

SwarmStart ==
    /\ thr = [t \in Threads |-> NewThread(IF t = Main THEN "deploy" ELSE "idle")]
    /\ emit_lock = NoThread
    /\ item_buffer = <<>>
    /\ stdout = <<>>
    /\ writing = {}
    /\ hive \in { [roots |-> r, all_items |-> <<>>, deep_targets |-> <<>>, todo |-> <<>>,
                   consumed |-> {}, last_emit_time |-> 0] : r \in 0..MaxRoots }

SwarmInit == SwarmStart /\ PurgeIdle /\ ClassIdle /\ ScanIdle /\ StoreIdle /\ PredictIdle /\ RecIdle /\ SignIdle /\ DaemonIdle /\ FaultIdle /\ ToolsIdle /\ DiskIdle /\ StaleIdle /\ WalkIdle /\ PoolIdle /\ LatchIdle /\ HistIdle

SwarmNext ==
    \/ \E t \in Threads :
        \/ AppendAcquire(t)
        \/ AppendItem(t)
        \/ FlushCheck(t)
        \/ FlushAcquire(t)
        \/ FlushLocked(t)
        \/ FlushWrite(t)
        \/ FlushWritten(t)
        \/ Write(t)
        \/ Written(t)
        \/ ExplorerWalk(t)
        \/ AnalyzerRun(t)
    \/ DeploySwarm
    \/ SubmitExplorers
    \/ ExplorerCompleted
    \/ EmitItems
    \/ ExplorersDone
    \/ SubmitAnalyzers
    \/ AnalyzerCompleted
    \/ TrackerUpdate
    \/ AnalyzersDone
    \/ EmitComplete

SpecSwarm == SwarmInit /\ [][SwarmNext]_vars

-----------------------------------------------------------------------------
(* properties of the swarm scanner *)

\* C11: no two threads are inside a write to stdout at the same time, and a thread
\* inside a write to stdout holds _emit_lock.
C11_WritesUnderLock ==
    /\ Cardinality(writing) <= 1
    /\ \A t \in writing : emit_lock = t

BatchesWith(it, k) ==
    { b \in 1..(k - 1) :
        /\ stdout[b].event = "batch"
        /\ \E i \in DOMAIN stdout[b].items : stdout[b].items[i] = it }

TimesBatched(it) ==
    Cardinality({ <<b, i>> \in (DOMAIN stdout) \X (1..(MaxRoots + MaxDeep)) :
                    /\ stdout[b].event = "batch"
                    /\ i \in DOMAIN stdout[b].items
                    /\ stdout[b].items[i] = it })

\* C12: every item in the items list of the complete event is, before the complete
\* event, on stdout in exactly one batch event, once.
C12_ItemsBatchedOnce ==
    \A k \in DOMAIN stdout :
        stdout[k].event = "complete" =>
            \A i \in DOMAIN stdout[k].items :
                /\ Cardinality(BatchesWith(stdout[k].items[i], k)) = 1
                /\ TimesBatched(stdout[k].items[i]) = 1

\* the scan has completed with several items, one of them written by a worker thread
C12_Witness ==
    \E k \in DOMAIN stdout :
        /\ stdout[k].event = "complete"
        /\ Len(stdout[k].items) >= 2
        /\ \E b \in 1..(k - 1) :
            stdout[b].event = "batch" /\ stdout[b].by # Main /\ stdout[b].items # <<>>

-----------------------------------------------------------------------------
(* sign_scan_results *)

\* Python's None
None == [none |-> TRUE]

\* the paths of the items that are signed and stored, in the order of Python's str
SignPaths == << "/a", "/b", "/c" >>

PathRank(path) == CHOOSE i \in DOMAIN SignPaths : SignPaths[i] = path

\* line 1910: {"path": i["path"], "size": i["size"]}
Projected(items) == [k \in DOMAIN items |-> [path |-> items[k].path, size |-> items[k].size]]

\* sorted(..., key=lambda x: x["path"]): a stable sort, equal keys keep their order
RECURSIVE InsertByPath(_, _)
InsertByPath(sorted, x) ==
    IF sorted = <<>> THEN <<x>>
    ELSE IF PathRank(Head(sorted).path) <= PathRank(x.path)
         THEN <<Head(sorted)>> \o InsertByPath(Tail(sorted), x)
    ELSE <<x>> \o sorted

RECURSIVE SortedByPath(_)
SortedByPath(items) ==
    IF items = <<>> THEN <<>>
    ELSE InsertByPath(SortedByPath(SubSeq(items, 1, Len(items) - 1)), items[Len(items)])

\* lines 1909-1913: the text that is hashed and signed; json.dumps writes the list in
\* its order and, with sort_keys, each object as path then size
content(items) == SortedByPath(Projected(items))

\* line 1914: sha256 of the content (no collisions)
content_hash(items) == [sha256 |-> content(items)]

\* lines 1916-1981: the attestation (timestamp and key_id are not modelled); the key
\* is the one kept in the keys directory
sign_scan_results(items) ==
    [algorithm |-> "Ed25519", content_hash |-> content_hash(items),
     signature |-> [signed |-> content(items)]]

-----------------------------------------------------------------------------
(* The result store: save_scan_to_cache, get_last_scan, run_scan's tail, run_status *)

\* line 1872: LIMIT 10
KEEP_ROWS == 10

\* the most scans that are saved
MaxSaves == 12

\* json.dumps and json.loads: a JSON text is modelled by the JSON value it denotes,
\* tagged with its JSON type
JString(s) == [string |-> s]
JNumber(n) == [number |-> n]

ItemJson(i) ==
    [object |-> [path |-> JString(i.path), size |-> JNumber(i.size),
                 risk |-> JString(i.risk), category |-> JString(i.category),
                 name |-> JString(i.name)]]

ItemOfJson(j) ==
    [path |-> j.object.path.string, size |-> j.object.size.number,
     risk |-> j.object.risk.string, category |-> j.object.category.string,
     name |-> j.object.name.string]

json_dumps_items(items) == [array |-> [k \in DOMAIN items |-> ItemJson(items[k])]]
json_loads_items(text) == [k \in DOMAIN text.array |-> ItemOfJson(text.array[k])]

LeafJson(n) ==
    [object |-> [name |-> JString(n.name), size |-> JNumber(n.size),
                 path |-> JString(n.path), risk |-> JString(n.risk),
                 last_accessed |-> JString(n.last_accessed)]]

LeafOfJson(j) ==
    [name |-> j.object.name.string, size |-> j.object.size.number,
     path |-> j.object.path.string, risk |-> j.object.risk.string,
     last_accessed |-> j.object.last_accessed.string]

CatJson(n) ==
    [object |-> [name |-> JString(n.name), size |-> JNumber(n.size),
                 children |-> [array |-> [k \in DOMAIN n.children |->
                                             LeafJson(n.children[k])]]]]

CatOfJson(j) ==
    [name |-> j.object.name.string, size |-> j.object.size.number,
     children |-> [k \in DOMAIN j.object.children.array |->
                      LeafOfJson(j.object.children.array[k])]]

json_dumps_tree(tree) ==
    [object |-> [name |-> JString(tree.name), size |-> JNumber(tree.size),
                 children |-> [array |-> [k \in DOMAIN tree.children |->
                                             CatJson(tree.children[k])]]]]

json_loads_tree(text) ==
    [name |-> text.object.name.string, size |-> text.object.size.number,
     children |-> [k \in DOMAIN text.object.children.array |->
                      CatOfJson(text.object.children.array[k])]]

\* build_tree lines 1324-1331
category_labels(category) ==
    CASE category = "browser_cache" -> "Browser Caches"
      [] category = "dev_cache" -> "Developer Tools"
      [] category = "app_cache" -> "Application Caches"
      [] category = "system_logs" -> "System Logs"
      [] category = "mail_backups" -> "Mail & Backups"
      [] category = "general_cache" -> "Other Caches"
      [] OTHER -> category

\* the keys of a dict in insertion order: each key where it was first set
RECURSIVE FirstSet(_)
FirstSet(keys) ==
    IF keys = <<>> THEN <<>>
    ELSE LET before == FirstSet(SubSeq(keys, 1, Len(keys) - 1))
         IN  IF \E i \in DOMAIN before : before[i] = keys[Len(keys)] THEN before
             ELSE Append(before, keys[Len(keys)])

\* lines 1347-1353: the leaf of an item
Leaf(item) ==
    [name |-> item.name, size |-> item.size, path |-> item.path, risk |-> item.risk,
     last_accessed |-> "Unknown"]

\* lines 1337-1353: the node of one category; a later item replaces the leaf of an
\* earlier item of the same name
CategoryNode(items, label) ==
    LET its == SelectSeq(items, LAMBDA i : category_labels(i.category) = label)
        names == FirstSet([k \in DOMAIN its |-> its[k].name])
        last(name) == CHOOSE k \in DOMAIN its :
                        /\ its[k].name = name
                        /\ \A m \in DOMAIN its : its[m].name = name => m <= k
    IN  [name |-> label, size |-> SumSizes(its),
         children |-> [k \in DOMAIN names |-> Leaf(its[last(names[k])])]]

\* build_tree lines 1320-1364
build_tree(items) ==
    LET labels == FirstSet([k \in DOMAIN items |-> category_labels(items[k].category)])
    IN  [name |-> "Storage", size |-> SumSizes(items),
         children |-> [k \in DOMAIN labels |-> CategoryNode(items, labels[k])]]

Ids(rows) == { rows[k].id : k \in DOMAIN rows }

\* SELECT id FROM scan_results ORDER BY id ASC LIMIT 10
Oldest(ids) == { i \in ids : Cardinality({ j \in ids : j < i }) < KEEP_ROWS }

\* line 1872: SELECT id FROM scan_results ORDER BY id DESC LIMIT 10
Newest(ids) == { i \in ids : Cardinality({ j \in ids : j > i }) < KEEP_ROWS }

\* id INTEGER PRIMARY KEY AUTOINCREMENT (line 1811): one more than the largest id the
\* table has ever held
NextId(rows, seq) ==
    1 + (CHOOSE m \in Ids(rows) \cup {seq} : \A j \in Ids(rows) \cup {seq} : j <= m)

\* save_scan_to_cache lines 1862-1865: the row inserted (scan_time, metrics_json,
\* total_bytes and duration_seconds are not modelled)
NewRow(rows, seq, items, tree, signature) ==
    [id |-> NextId(rows, seq), items_json |-> json_dumps_items(items),
     tree_json |-> json_dumps_tree(tree), signature |-> signature]

\* save_scan_to_cache lines 1861-1873: the table after the insert and the delete
save_scan_to_cache(rows, seq, items, tree, signature) ==
    LET all == Append(rows, NewRow(rows, seq, items, tree, signature))
    IN  SelectSeq(all, LAMBDA r : r.id \in Newest(Ids(all)))

\* ORDER BY id ASC LIMIT 1
FirstRow(rows) ==
    CHOOSE r \in { rows[k] : k \in DOMAIN rows } : \A k \in DOMAIN rows : rows[k].id >= r.id

\* line 1879: ORDER BY id DESC LIMIT 1
LastRow(rows) ==
    CHOOSE r \in { rows[k] : k \in DOMAIN rows } : \A k \in DOMAIN rows : rows[k].id <= r.id

\* get_last_scan lines 1876-1891
get_last_scan(rows) ==
    IF rows = <<>> THEN None
    ELSE LET row == LastRow(rows)
         IN  [items |-> json_loads_items(row.items_json),
              tree |-> json_loads_tree(row.tree_json),
              signature |-> row.signature]

StoreItemA == Item("/a", 2048, "safe", "browser_cache", "Cache")
StoreItemB == Item("/b", 4096, "caution", "dev_cache", "node_modules")
StoreItemC == Item("/c", 8192, "safe", "browser_cache", "Cache")

\* what a run of run_scan comes to at line 2096: the items in the order found, and
\* whether sign_scan_results succeeds
ScanChoices ==
    { [found |-> << StoreItemA >>, signs |-> FALSE],
      [found |-> << StoreItemA, StoreItemB, StoreItemC >>, signs |-> TRUE] }

\* run_scan lines 2089-2173: the tree is built, the items are sorted and signed, the
\* row is saved when the store could be opened (conn), and the complete event is
\* written
RunScan ==
    \E c \in ScanChoices, conn \in BOOLEAN :
        LET tree == build_tree(c.found)
            items == SortBySize(c.found)
            attestation == IF c.signs THEN sign_scan_results(items) ELSE None
            signature == IF attestation # None THEN attestation.signature ELSE None
        IN  /\ conn => Len(inserted) < MaxSaves
            /\ IF conn
               THEN /\ scan_results' = save_scan_to_cache(scan_results, sqlite_sequence,
                                                         items, tree, signature)
                    /\ sqlite_sequence' = NextId(scan_results, sqlite_sequence)
                    /\ inserted' = Append(inserted, NextId(scan_results, sqlite_sequence))
               ELSE UNCHANGED <<scan_results, sqlite_sequence, inserted>>
            /\ saved' = conn
            /\ scan_event' = [event |-> "complete", items |-> items, tree |-> tree,
                              attestation |-> attestation]
            /\ status_event' = [event |-> "none"]
            /\ UNCHANGED notStoreVars

\* run_status lines 2176-2202; store_open records whether the store could be opened
RunStatus ==
    /\ status_event.event = "none"
    /\ \E conn \in BOOLEAN :
        LET cached == IF conn THEN get_last_scan(scan_results) ELSE None
        IN  status_event' =
                IF cached # None
                THEN [event |-> "complete", items |-> cached.items, tree |-> cached.tree,
                      attestation |-> IF cached.signature # None
                                      THEN [signature |-> cached.signature] ELSE None,
                      cached |-> TRUE, store_open |-> conn]
                ELSE [event |-> "error", store_open |-> conn]
    /\ UNCHANGED <<scan_results, sqlite_sequence, inserted, scan_event, saved>>
    /\ UNCHANGED notStoreVars

StoreStart ==
    /\ scan_results = <<>>
    /\ sqlite_sequence = 0
    /\ inserted = <<>>
    /\ scan_event = [event |-> "none"]
    /\ status_event = [event |-> "none"]
    /\ saved = FALSE

StoreInit == StoreStart /\ PurgeIdle /\ ClassIdle /\ ScanIdle /\ SwarmIdle /\ PredictIdle /\ RecIdle /\ SignIdle /\ DaemonIdle /\ FaultIdle /\ ToolsIdle /\ DiskIdle /\ StaleIdle /\ WalkIdle /\ PoolIdle /\ LatchIdle /\ HistIdle

StoreNext == RunScan \/ RunStatus

SpecStore == StoreInit /\ [][StoreNext]_vars

-----------------------------------------------------------------------------
(* properties of the result store *)

Min(a, b) == IF a <= b THEN a ELSE b

\* C13: after n saves scan_results holds min(n, 10) rows, they are the rows inserted
\* last, and every save has inserted one row with an id of its own.
C13_StoreKeepsNewest ==
    LET n == Len(inserted)
        kept == Min(n, KEEP_ROWS)
    IN  /\ Len(scan_results) = kept
        /\ [k \in DOMAIN scan_results |-> scan_results[k].id]
              = SubSeq(inserted, n - kept + 1, n)
        /\ \A i, j \in DOMAIN inserted : inserted[i] = inserted[j] => i = j

\* more scans have been saved than the store keeps
C13_Witness == Len(inserted) > KEEP_ROWS + 1 /\ Len(scan_results) = KEEP_ROWS

SignatureOf(attestation) == IF attestation = None THEN None ELSE attestation.signature

\* C14: a status that follows a scan that was saved, with the store open, writes a
\* complete event with cached true and the items, the tree and the signature of the
\* scan's complete event.
C14_StatusRoundTrip ==
    (saved /\ status_event.event # "none" /\ status_event.store_open) =>
        /\ status_event.event = "complete"
        /\ status_event.cached = TRUE
        /\ status_event.items = scan_event.items
        /\ status_event.tree = scan_event.tree
        /\ SignatureOf(status_event.attestation) = SignatureOf(scan_event.attestation)

\* a status after a scan with several items, a signature and earlier scans evicted
C14_Witness ==
    /\ saved
    /\ status_event.event = "complete"
    /\ Len(status_event.items) >= 2
    /\ status_event.attestation # None
    /\ Len(inserted) > KEEP_ROWS

-----------------------------------------------------------------------------
(* predict_space_exhaustion.  Amounts of bytes are counted in GiB and times in     *)
(* seconds; a quotient is kept as a fraction [num, den] with den > 0.              *)

\* the most history records in a timeline
MaxRecords == 3

\* line 1778: total_seconds() / 86400
SECONDS_PER_DAY == 86400

\* the scan times, seconds after the first scan: none, an hour, a day, two days later
TimeChoices == { 0, 3600, SECONDS_PER_DAY, 2 * SECONDS_PER_DAY }
TotalChoices == { 10, 11, 12 }
FreeChoices == { 0, 25, 50 }

Fraction(num, den) == [num |-> num, den |-> den]
Less(f, g) == f.num * g.den < g.num * f.den
FMax(f, g) == IF Less(f, g) THEN g ELSE f

\* Python's round of a fraction that is not negative: to the nearest integer, a half
\* to the even one
round(f) ==
    LET q == f.num \div f.den
        r == f.num % f.den
    IN  IF 2 * r < f.den THEN q
        ELSE IF 2 * r > f.den THEN q + 1
        ELSE IF q % 2 = 0 THEN q ELSE q + 1

\* line 1778: days_span = max(seconds / 86400, 0.01)
days_span(tl) ==
    FMax(Fraction(tl[Len(tl)].scan_time - tl[1].scan_time, SECONDS_PER_DAY),
         Fraction(1, 100))

\* lines 1780-1782
growth(tl) == tl[Len(tl)].total_bytes - tl[1].total_bytes

\* line 1787: rate_per_day = growth / days_span
rate_per_day(tl) == Fraction(growth(tl) * days_span(tl).den, days_span(tl).num)

\* line 1784: growth <= 0 or days_span < 0.1
NoTrend(tl) == growth(tl) <= 0 \/ Less(days_span(tl), Fraction(1, 10))

\* lines 1765-1797 (of the dict returned, days_until_full and data_points are modelled)
predict_space_exhaustion(tl, free) ==
    IF Len(tl) < 2 THEN None
    ELSE IF NoTrend(tl) THEN None
    ELSE [days_until_full |->
              round(Fraction(free * rate_per_day(tl).den, rate_per_day(tl).num)),
          data_points |-> Len(tl)]

\* the timelines that get_storage_timeline can give: scan times do not go back
Timelines ==
    { tl \in UNION { [1..n -> [scan_time : TimeChoices, total_bytes : TotalChoices]] :
                        n \in 0..MaxRecords } :
        \A k \in 1..(Len(tl) - 1) : tl[k].scan_time <= tl[k + 1].scan_time }

PredictStart ==
    /\ timeline \in Timelines
    /\ disk_free \in FreeChoices
    /\ prediction = [called |-> FALSE]

PredictInit == PredictStart /\ PurgeIdle /\ ClassIdle /\ ScanIdle /\ SwarmIdle /\ StoreIdle /\ RecIdle /\ SignIdle /\ DaemonIdle /\ FaultIdle /\ ToolsIdle /\ DiskIdle /\ StaleIdle /\ WalkIdle /\ PoolIdle /\ LatchIdle /\ HistIdle

Predict ==
    /\ prediction = [called |-> FALSE]
    /\ prediction' = predict_space_exhaustion(timeline, disk_free)
    /\ UNCHANGED <<timeline, disk_free>>
    /\ UNCHANGED notPredictVars

PredictNext == Predict

SpecPredict == PredictInit /\ [][PredictNext]_vars

-----------------------------------------------------------------------------
(* properties of predict_space_exhaustion *)

\* C15: with fewer than 2 records there is no prediction; with 2 or more, a prediction
\* with days_until_full = disk_free / rate (rounded as the code rounds) is returned
\* when rate = growth / days_span is positive, and none otherwise.
C15_PredictionWhenGrowing ==
    prediction # [called |-> FALSE] =>
        IF Len(timeline) < 2 THEN prediction = None
        ELSE IF rate_per_day(timeline).num > 0
             THEN /\ prediction # None
                  /\ prediction.days_until_full =
                        round(Fraction(disk_free * rate_per_day(timeline).den,
                                       rate_per_day(timeline).num))
             ELSE prediction = None

-----------------------------------------------------------------------------
(* build_recommendations.  The md5 digest of a path is modelled by the path (no     *)
(* collisions), an id by the tuple of the parts of its f-string, and a confidence   *)
(* by its hundredths.                                                               *)

\* the most items of a scan
MaxRecItems == 2

MiB == 1024 * 1024

\* the items a scan can hand over: path, size, risk and category
RecItemChoices ==
    { Item("/a", 501 * MiB, "safe", "browser_cache", "a"),
      Item("/b", 60 * MiB, "safe", "browser_cache", "b"),
      Item("/c", 60 * MiB, "safe", "browser_cache", "c"),
      Item("/d", 101 * MiB, "safe", "dev_cache", "d"),
      Item("/e", 501 * MiB, "caution", "dev_cache", "e"),
      Item("/f", 500 * MiB, "safe", "app_cache", "f"),
      Item("/g", 502 * MiB, "safe", "dev_cache", "g") }

\* a stale project: its path, its reclaimable bytes and the paths of its cleanable dirs
StaleChoices ==
    { [path |-> "/p", reclaimable_bytes |-> 60 * MiB,
       cleanable_dirs |-> << "/p/node_modules" >>],
      [path |-> "/p", reclaimable_bytes |-> 50 * MiB, cleanable_dirs |-> << "/p/dist" >>],
      [path |-> "/q", reclaimable_bytes |-> 600 * MiB,
       cleanable_dirs |-> << "/q/target", "/q/build" >>] }

\* disk_free and disk_total, in GiB
DiskChoices ==
    { [disk_free |-> 5, disk_total |-> 100], [disk_free |-> 10, disk_total |-> 100],
      [disk_free |-> 50, disk_total |-> 100], [disk_free |-> 0, disk_total |-> 0] }

\* the sequences over S without repetition, of length up to n
Arrangements(S, n) ==
    { q \in SeqsUpTo(S, n) : \A i, j \in DOMAIN q : q[i] = q[j] => i = j }

Paths(its) == [k \in DOMAIN its |-> its[k].path]

\* lines 1646-1659
QuickWin(item) ==
    [id |-> << "quick_", item.path >>, category |-> "quick_wins",
     impact_bytes |-> item.size, confidence |-> IF item.risk = "safe" THEN 95 ELSE 70,
     items |-> << item.path >>]

QuickWins(its) ==
    LET big == SelectSeq(its, LAMBDA i : i.size > 500 * MiB /\ i.risk = "safe")
    IN  [k \in DOMAIN big |-> QuickWin(big[k])]

\* lines 1662-1678
DevCleanup(proj) ==
    [id |-> << "stale_", proj.path >>, category |-> "dev_cleanup",
     impact_bytes |-> proj.reclaimable_bytes, confidence |-> 85,
     items |-> proj.cleanable_dirs]

DevCleanups(detected) ==
    LET stale == SelectSeq(detected, LAMBDA p : p.reclaimable_bytes > 50 * MiB)
    IN  [k \in DOMAIN stale |-> DevCleanup(stale[k])]

\* lines 1682-1685: the small safe items, and the keys of cat_groups in insertion order
SmallSafe(its) == SelectSeq(its, LAMBDA i : i.size < 500 * MiB /\ i.risk = "safe")

\* lines 1695-1711
Batch(its, cat_id) ==
    LET cat_items == SelectSeq(SmallSafe(its), LAMBDA i : i.category = cat_id)
    IN  [id |-> << "batch_", cat_id >>, category |-> "maintenance",
         impact_bytes |-> SumSizes(cat_items), confidence |-> 90,
         items |-> Paths(cat_items)]

Batches(its) ==
    LET cats == FirstSet([k \in DOMAIN SmallSafe(its) |-> SmallSafe(its)[k].category])
        all == [k \in DOMAIN cats |-> Batch(its, cats[k])]
    IN  SelectSeq(all, LAMBDA r : r.impact_bytes > 100 * MiB)

\* lines 1714-1716: free_pct < 10
LowSpace(disk) ==
    IF disk.disk_total > 0 THEN disk.disk_free * 100 < 10 * disk.disk_total ELSE FALSE

\* lines 1719-1732
Urgent(its) ==
    LET safe == SelectSeq(its, LAMBDA i : i.risk = "safe")
    IN  [id |-> << "urgent_space" >>, category |-> "urgent",
         impact_bytes |-> SumSizes(safe), confidence |-> 100, items |-> Paths(safe)]

\* line 1735
priority_order(category) ==
    CASE category = "urgent" -> 0
      [] category = "quick_wins" -> 1
      [] category = "dev_cleanup" -> 2
      [] category = "maintenance" -> 3
      [] category = "media_management" -> 4
      [] OTHER -> 5

\* line 1736: the order of the keys (priority, -impact_bytes)
KeyAtMost(r, q) ==
    \/ priority_order(r.category) < priority_order(q.category)
    \/ /\ priority_order(r.category) = priority_order(q.category)
       /\ r.impact_bytes >= q.impact_bytes

RECURSIVE InsertByKey(_, _)
InsertByKey(sorted, x) ==
    IF sorted = <<>> THEN <<x>>
    ELSE IF KeyAtMost(Head(sorted), x) THEN <<Head(sorted)>> \o InsertByKey(Tail(sorted), x)
    ELSE <<x>> \o sorted

RECURSIVE SortedByKey(_)
SortedByKey(rs) ==
    IF rs = <<>> THEN <<>>
    ELSE InsertByKey(SortedByKey(SubSeq(rs, 1, Len(rs) - 1)), rs[Len(rs)])

Unsorted(rs) == rs

\* line 1736: recs.sort, a stable sort
SortRecs(rs) == SortedByKey(rs)

\* build_recommendations lines 1635-1738
build_recommendations(its, disk, detected) ==
    LET found == QuickWins(its) \o DevCleanups(detected) \o Batches(its)
    IN  SortRecs(IF LowSpace(disk) THEN << Urgent(its) >> \o found ELSE found)

RecStart ==
    /\ rec_items \in Arrangements(RecItemChoices, MaxRecItems)
    /\ disk_map \in DiskChoices
    /\ stale_projects \in Arrangements(StaleChoices, 1)
    /\ recs = [called |-> FALSE, list |-> <<>>]

RecInit ==
    /\ RecStart
    /\ PurgeIdle /\ ClassIdle /\ ScanIdle /\ SwarmIdle /\ StoreIdle /\ PredictIdle
    /\ SignIdle
    /\ DaemonIdle
    /\ FaultIdle
    /\ ToolsIdle
    /\ DiskIdle
    /\ StaleIdle
    /\ WalkIdle
    /\ PoolIdle
    /\ LatchIdle
    /\ HistIdle

BuildRecommendations ==
    /\ recs = [called |-> FALSE, list |-> <<>>]
    /\ recs' = [called |-> TRUE,
                list |-> build_recommendations(rec_items, disk_map, stale_projects)]
    /\ UNCHANGED <<rec_items, disk_map, stale_projects>>
    /\ UNCHANGED notRecVars

RecNext == BuildRecommendations

SpecRec == RecInit /\ [][RecNext]_vars

-----------------------------------------------------------------------------
(* properties of build_recommendations *)

RecsBuilt == recs.called

\* C16: the list is ordered by category priority and, within a category, by impact_bytes
\* from large to small; when free space is below 10% of the total, its first element has
\* category urgent and confidence 1.0 and its targets are the paths of all safe items.
C16_RecommendationOrder ==
    RecsBuilt =>
        /\ \A k \in 1..(Len(recs.list) - 1) :
            \/ priority_order(recs.list[k].category) < priority_order(recs.list[k + 1].category)
            \/ /\ recs.list[k].category = recs.list[k + 1].category
               /\ recs.list[k].impact_bytes >= recs.list[k + 1].impact_bytes
        /\ (disk_map.disk_total > 0 /\ disk_map.disk_free * 100 < 10 * disk_map.disk_total) =>
            /\ recs.list # <<>>
            /\ recs.list[1].category = "urgent"
            /\ recs.list[1].confidence = 100
            /\ recs.list[1].items = Paths(SelectSeq(rec_items, LAMBDA i : i.risk = "safe"))

\* a low disk, two recommendations of one category out of the order found, and another
C16_Witness ==
    /\ RecsBuilt
    /\ disk_map.disk_free * 100 < 10 * disk_map.disk_total
    /\ Len(recs.list) >= 4
    /\ \E k \in 1..(Len(recs.list) - 1) :
        /\ recs.list[k].category = recs.list[k + 1].category
        /\ recs.list[k].impact_bytes > recs.list[k + 1].impact_bytes
        /\ recs.list[k].items = << "/g" >>
    /\ rec_items[1].path = "/a"

Targets(r) == { r.items[k] : k \in DOMAIN r.items }

\* C17: two recommendations of a list have the same id exactly when they have the same
\* set of target paths.
C17_IdFromTargets ==
    RecsBuilt =>
        \A i, j \in DOMAIN recs.list :
            (recs.list[i].id = recs.list[j].id) <=> (Targets(recs.list[i]) = Targets(recs.list[j]))

-----------------------------------------------------------------------------
(* sign_scan_results applied to an item list and to a permutation of it *)

\* the most items in the list
MaxSignItems == 3

\* the items signed: items may share a path and differ in size
SignItemChoices ==
    { Item(path, size, "safe", "app_cache", "cache") :
        path \in { SignPaths[k] : k \in DOMAIN SignPaths }, size \in { 1024, 2048 } }

Permuted(its, order) == [k \in DOMAIN its |-> its[order[k]]]

SignStart ==
    /\ sign_items \in SeqsUpTo(SignItemChoices, MaxSignItems)
    /\ sign_order \in Permutations(DOMAIN sign_items)
    /\ hashes = [called |-> FALSE]

SignInit ==
    /\ SignStart
    /\ PurgeIdle /\ ClassIdle /\ ScanIdle /\ SwarmIdle /\ StoreIdle /\ PredictIdle /\ RecIdle
    /\ DaemonIdle
    /\ FaultIdle
    /\ ToolsIdle
    /\ DiskIdle
    /\ StaleIdle
    /\ WalkIdle
    /\ PoolIdle
    /\ LatchIdle
    /\ HistIdle

SignBoth ==
    /\ hashes = [called |-> FALSE]
    /\ hashes' = [called |-> TRUE,
                  first |-> sign_scan_results(sign_items).content_hash,
                  second |-> sign_scan_results(Permuted(sign_items, sign_order)).content_hash]
    /\ UNCHANGED <<sign_items, sign_order>>
    /\ UNCHANGED notSignVars

SignNext == SignBoth

SpecSign == SignInit /\ [][SignNext]_vars

-----------------------------------------------------------------------------
(* properties of sign_scan_results *)

\* C18: an item list and every permutation of it have the same content_hash.
C18_HashIgnoresOrder == hashes.called => hashes.first = hashes.second

-----------------------------------------------------------------------------
(* run_daemon.  The model starts when the handlers of SIGINT and SIGTERM are        *)
(* installed (line 2221); run_scan is taken to return.                              *)

\* the most scans of a daemon
MaxScans == 2

\* line 2213
scan_interval == 3600

NeverBreak(flag) == FALSE

\* line 2228: if not running: break
BreakNow(flag) == ~flag

\* line 2223
DaemonStarted ==
    /\ dpc = "start"
    /\ devents' = Append(devents, "daemon_started")
    /\ dpc' = "while"
    /\ UNCHANGED <<running, slept, scans, sig_at, sleeps_after, scans_after>>
    /\ UNCHANGED notDaemonVars

LoopAlways(flag) == TRUE

\* line 2225: while running
LoopAgain(flag) == flag

\* line 2225: while running; line 2226: run_scan is called
While ==
    /\ dpc = "while"
    /\ LoopAgain(running) => scans < MaxScans
    /\ IF LoopAgain(running)
       THEN /\ dpc' = "scan"
            /\ scans' = scans + 1
            /\ scans_after' = IF sig_at # "none" THEN scans_after + 1 ELSE scans_after
       ELSE /\ dpc' = "stop"
            /\ UNCHANGED <<scans, scans_after>>
    /\ UNCHANGED <<running, devents, slept, sig_at, sleeps_after>>
    /\ UNCHANGED notDaemonVars

\* run_scan lines 2059-2065: its first event
ScanBegin ==
    /\ dpc = "scan"
    /\ devents' = Append(devents, "progress")
    /\ dpc' = "scanning"
    /\ UNCHANGED <<running, slept, scans, sig_at, sleeps_after, scans_after>>
    /\ UNCHANGED notDaemonVars

\* run_scan lines 2141-2173: its complete event; line 2228 starts the sleep loop
ScanReturn ==
    /\ dpc = "scanning"
    /\ devents' = Append(devents, "complete")
    /\ dpc' = "for"
    /\ slept' = 0
    /\ UNCHANGED <<running, scans, sig_at, sleeps_after, scans_after>>
    /\ UNCHANGED notDaemonVars

\* lines 2228-2230: for _ in range(scan_interval): if not running: break
For ==
    /\ dpc = "for"
    /\ dpc' = IF slept = scan_interval \/ BreakNow(running) THEN "while" ELSE "sleep"
    /\ sleeps_after' = IF slept < scan_interval /\ ~BreakNow(running) /\ sig_at # "none"
                       THEN sleeps_after + 1 ELSE sleeps_after
    /\ UNCHANGED <<running, devents, slept, scans, sig_at, scans_after>>
    /\ UNCHANGED notDaemonVars

\* line 2231: time.sleep(1) returns
Sleep ==
    /\ dpc = "sleep"
    /\ slept' = slept + 1
    /\ dpc' = "for"
    /\ UNCHANGED <<running, devents, scans, sig_at, sleeps_after, scans_after>>
    /\ UNCHANGED notDaemonVars

\* line 2233
DaemonStopped ==
    /\ dpc = "stop"
    /\ devents' = Append(devents, "daemon_stopped")
    /\ dpc' = "exit"
    /\ UNCHANGED <<running, slept, scans, sig_at, sleeps_after, scans_after>>
    /\ UNCHANGED notDaemonVars

\* lines 2216-2218: SIGINT or SIGTERM arrives and handle_signal runs; the call that
\* the signal came upon (a scan, a sleep) goes on afterwards.  A later signal changes
\* nothing.
Signal ==
    /\ dpc # "exit"
    /\ running
    /\ running' = FALSE
    /\ sig_at' = dpc
    /\ UNCHANGED <<dpc, devents, slept, scans, sleeps_after, scans_after>>
    /\ UNCHANGED notDaemonVars

DaemonStart ==
    /\ dpc = "start"
    /\ running = TRUE
    /\ devents = <<>>
    /\ slept = 0
    /\ scans = 0
    /\ sig_at = "none"
    /\ sleeps_after = 0
    /\ scans_after = 0

DaemonInit ==
    /\ DaemonStart
    /\ PurgeIdle /\ ClassIdle /\ ScanIdle /\ SwarmIdle /\ StoreIdle /\ PredictIdle /\ RecIdle
    /\ SignIdle
    /\ FaultIdle
    /\ ToolsIdle
    /\ DiskIdle
    /\ StaleIdle
    /\ WalkIdle
    /\ PoolIdle
    /\ LatchIdle
    /\ HistIdle

\* the steps of the daemon itself
DaemonStep ==
    \/ DaemonStarted
    \/ While
    \/ ScanBegin
    \/ ScanReturn
    \/ For
    \/ Sleep
    \/ DaemonStopped

DaemonNext == DaemonStep \/ Signal

SpecDaemon == DaemonInit /\ [][DaemonNext]_vars

\* the process is scheduled: a step of the daemon that can be taken is taken
SpecDaemonFair == SpecDaemon /\ WF_vars(DaemonStep)

-----------------------------------------------------------------------------
(* properties of run_daemon *)

Count(events, name) == Cardinality({ k \in DOMAIN events : events[k] = name })

\* daemon_started is written once, before the first scan
StartedOnce ==
    /\ dpc # "start" => devents # <<>> /\ devents[1] = "daemon_started"
    /\ Count(devents, "daemon_started") <= 1

\* a scan that has begun writes its complete event, whether a signal has come or not
ScansComplete ==
    /\ Count(devents, "complete") = IF dpc \in {"scan", "scanning"} THEN scans - 1 ELSE scans
    /\ Count(devents, "progress") = IF dpc = "scan" THEN scans - 1 ELSE scans

\* after a signal no further scan begins, and daemon_stopped is the last event
StopsAfterSignal ==
    /\ scans_after = 0
    /\ dpc = "exit" <=> (devents # <<>> /\ devents[Len(devents)] = "daemon_stopped")
    /\ Count(devents, "daemon_stopped") <= 1
    /\ (dpc = "exit" /\ sig_at \in {"scan", "scanning"}) =>
            devents[Len(devents) - 1] = "complete"

\* after a signal no further sleep of one second begins: the one that the signal came
\* upon is the last
EndsWithinOneStep == sleeps_after = 0

C19_Safety == StartedOnce /\ ScansComplete /\ StopsAfterSignal /\ EndsWithinOneStep

-----------------------------------------------------------------------------
(* run_scan on a filesystem whose calls fail: where an error is raised and what the  *)
(* code around the call does with it                                                 *)

\* the most errors that the filesystem raises during one scan
MaxFaults == 2

ErrorKinds == {"permission", "symlink", "missing", "other"}

\* the passes of run_scan (lines 2068-2093), in order
Passes == << "scan_browser_caches", "scan_app_caches", "scan_system_logs",
             "scan_mail_and_backups", "scan_dev_caches", "scan_general_caches",
             "scan_full_disk", "detect_stale_projects" >>

\* the calls that can fail, with the pass they are made in and what is done with the
\* exception: "pass" (except ...: pass), "record" (tracker.record_error) or "none"
\* (no try statement around the call)
FaultSites ==
    { [call |-> "os.listdir(base_path)", line |-> 350, in |-> "scan_browser_caches",
       handler |-> "pass"],
      [call |-> "os.path.getsize(fp)", line |-> 212, in |-> "scan_app_caches",
       handler |-> "pass"],
      [call |-> "os.path.getsize(path)", line |-> 738, in |-> "scan_system_logs",
       handler |-> "none"],
      [call |-> "os.listdir(ios_backups)", line |-> 826, in |-> "scan_mail_and_backups",
       handler |-> "pass"],
      [call |-> "os.walk(search_root)", line |-> 538, in |-> "scan_dev_caches",
       handler |-> "pass"],
      [call |-> "os.listdir(caches_root)", line |-> 898, in |-> "scan_general_caches",
       handler |-> "pass"],
      [call |-> "entry.stat()", line |-> 1064, in |-> "scan_full_disk",
       handler |-> "record"],
      [call |-> "os.scandir(LIBRARY)", line |-> 1088, in |-> "scan_full_disk",
       handler |-> "record"],
      [call |-> "os.scandir(search_root)", line |-> 1538, in |-> "detect_stale_projects",
       handler |-> "record"] }

\* an exception: its kind and whether its text holds the word "symlink" (the text of
\* the system's error for a symlink loop is "Too many levels of symbolic links",
\* followed by the path)
Faults ==
    { [kind |-> k, says_symlink |-> b] : k \in ErrorKinds, b \in BOOLEAN }

\* ProgressTracker.record_error lines 256-269: the counter that is incremented
Recorded(error) ==
    IF error.kind = "permission" THEN "permission"
    ELSE IF error.kind = "missing" THEN "missing"
    ELSE IF error.says_symlink THEN "symlink"
    ELSE "other"

Bump(counts, kind) == [counts EXCEPT ![kind] = @ + 1]

Total(counts) ==
    counts["permission"] + counts["symlink"] + counts["missing"] + counts["other"]

PassAfter(pass) ==
    IF pass = Passes[Len(Passes)] THEN "finish"
    ELSE Passes[1 + CHOOSE k \in DOMAIN Passes : Passes[k] = pass]

\* a call of the pass that runs raises an error; the code around the call has the
\* error pass, records it, or lets it leave run_scan
Fault ==
    /\ Total(raised) < MaxFaults
    /\ \E site \in FaultSites, error \in Faults :
        /\ site.in = fpc
        /\ raised' = Bump(raised, error.kind)
        /\ errors' = IF site.handler = "record" THEN Bump(errors, Recorded(error))
                     ELSE errors
        /\ fpc' = IF site.handler = "none" THEN "aborted" ELSE fpc
    /\ UNCHANGED fout
    /\ UNCHANGED notFaultVars

\* the pass that runs returns
PassReturns ==
    /\ \E k \in DOMAIN Passes : Passes[k] = fpc
    /\ fpc' = PassAfter(fpc)
    /\ UNCHANGED <<errors, raised, fout>>
    /\ UNCHANGED notFaultVars

\* run_scan lines 2141-2173
Complete ==
    /\ fpc = "finish"
    /\ fout' = Append(fout, "complete")
    /\ fpc' = "done"
    /\ UNCHANGED <<errors, raised>>
    /\ UNCHANGED notFaultVars

FaultStart ==
    /\ fpc = Passes[1]
    /\ errors = [k \in ErrorKinds |-> 0]
    /\ raised = [k \in ErrorKinds |-> 0]
    /\ fout = <<>>

FaultInit ==
    /\ FaultStart
    /\ PurgeIdle /\ ClassIdle /\ ScanIdle /\ SwarmIdle /\ StoreIdle /\ PredictIdle /\ RecIdle
    /\ SignIdle /\ DaemonIdle
    /\ ToolsIdle
    /\ DiskIdle
    /\ StaleIdle
    /\ WalkIdle
    /\ PoolIdle
    /\ LatchIdle
    /\ HistIdle

FaultNext == Fault \/ PassReturns \/ Complete

SpecFault == FaultInit /\ [][FaultNext]_vars

-----------------------------------------------------------------------------
(* properties of the scanner's error handling *)

\* C20: whatever errors the filesystem raises, no error leaves run_scan, the tracker
\* has counted every error under its kind, and a scan that has ended has written its
\* complete event.
C20_ErrorsRecovered ==
    /\ fpc # "aborted"
    /\ \A k \in ErrorKinds : errors[k] = raised[k]
    /\ fpc = "done" => fout = << "complete" >>

-----------------------------------------------------------------------------
(* run_scan and its subprocess calls: docker system df in scan_dev_caches,
   tmutil listlocalsnapshots in scan_mail_and_backups and in detect_hidden_space,
   diskutil info in detect_hidden_space *)

\* the lines a tool writes to its stdout, at most
MaxLines == 2

\* how subprocess.run(..., capture_output=True, text=True, timeout=10) may end: it
\* raises FileNotFoundError (no such binary) or TimeoutExpired, or it returns a
\* CompletedProcess with a returncode and the stdout text (a sequence of lines)
Raises(exception) == [raises |-> exception, returncode |-> 1, stdout |-> <<>>]
CompletedProcess(returncode, lines) ==
    [raises |-> "none", returncode |-> returncode, stdout |-> lines]

RunResults(Lines) ==
    { Raises("FileNotFoundError"), Raises("TimeoutExpired") }
    \cup { CompletedProcess(1, text) : text \in SeqsUpTo(Lines, 1) }
    \cup { CompletedProcess(0, text) : text \in SeqsUpTo(Lines, MaxLines) }

\* a line of text: whether l.strip() is empty, whether it holds "com.apple", whether
\* it holds "Purgeable" and "Bytes", and the number of its "(<digits> Bytes)" group
\* (-1: no such group)
TextLine(blank, apple, purgeable, bytes) ==
    [blank |-> blank, com_apple |-> apple, purgeable |-> purgeable, bytes |-> bytes]

DockerLines == { TextLine(TRUE, FALSE, FALSE, -1), TextLine(FALSE, FALSE, FALSE, -1) }

TmutilLines ==
    { TextLine(TRUE, FALSE, FALSE, -1),      \* an empty line
      TextLine(FALSE, FALSE, FALSE, -1),     \* "Snapshots for disk /:"
      TextLine(FALSE, TRUE, FALSE, -1) }     \* "com.apple.TimeMachine.<date>.local"

DiskutilLines ==
    { TextLine(FALSE, FALSE, FALSE, 4096),   \* "Volume Free Space: ... (4096 Bytes)"
      TextLine(FALSE, FALSE, TRUE, -1),      \* "Purgeable Bytes: unknown"
      TextLine(FALSE, FALSE, TRUE, 2048) }   \* "Purgeable Space: ... (2048 Bytes)"

\* result.stdout.strip() is not empty
HasText(run) == \E i \in DOMAIN run.stdout : ~run.stdout[i].blank

\* [l for l in ... if <test>]
RECURSIVE LinesWhere(_, _, _)
LinesWhere(lines, nonblank, apple) ==
    IF lines = <<>> THEN <<>>
    ELSE LET l == Head(lines)
             rest == LinesWhere(Tail(lines), nonblank, apple)
         IN  IF (nonblank => ~l.blank) /\ (apple => l.com_apple) THEN <<l>> \o rest ELSE rest

\* the size of a cache directory (get_dir_size_fast) and whether it is there
CacheDirChoices == { 0, MIN_ITEM_SIZE, MIN_ITEM_SIZE + 1 }

CacheItem(path, risk, name) ==
    IF cache_dirs[path] > 0 /\ cache_dirs[path] > MIN_ITEM_SIZE
    THEN << Item(path, cache_dirs[path], risk, "dev_cache", name) >>
    ELSE <<>>

\* scan_mail_and_backups lines 794-816: the Time Machine item
snapshot_item(run) ==
    IF run.raises # "none" THEN <<>>
    ELSE IF run.returncode = 0 /\ HasText(run)
              /\ LinesWhere(run.stdout, TRUE, FALSE) # <<>>
    THEN << [path |-> time_machine_path, size |-> 0, risk |-> "caution",
             category |-> "mail_backups",
             name |-> <<"Time Machine Snapshots", Len(LinesWhere(run.stdout, TRUE, FALSE))>>] >>
    ELSE <<>>

\* scan_dev_caches lines 462-499: the Docker Desktop item
docker_item(run) ==
    IF run.raises # "none" THEN <<>>
    ELSE IF run.returncode = 0 /\ HasText(run)
    THEN CacheItem(docker_vm, "caution", <<"Docker Desktop Data">>)
    ELSE <<>>

\* scan_dev_caches lines 513-529: the NPM cache item
npm_item == CacheItem(npm_cache, "safe", <<"NPM Cache (~/.npm)">>)

\* detect_hidden_space lines 1187-1203: the first line with both words whose
\* parenthesized byte count is found
RECURSIVE purgeable_bytes(_)
purgeable_bytes(lines) ==
    IF lines = <<>> THEN 0
    ELSE IF Head(lines).purgeable /\ Head(lines).bytes >= 0 THEN Head(lines).bytes
    ELSE purgeable_bytes(Tail(lines))

FirstLines(lines, n) == SubSeq(lines, 1, IF Len(lines) < n THEN Len(lines) ELSE n)

\* detect_hidden_space lines 1178-1224
detect_hidden_space(diskutil, tmutil, disk_used, mapped) ==
    LET snaps == LinesWhere(tmutil.stdout, TRUE, TRUE)
        listed == tmutil.raises = "none" /\ tmutil.returncode = 0
    IN  [purgeable_bytes |-> IF diskutil.raises = "none" /\ diskutil.returncode = 0
                             THEN purgeable_bytes(diskutil.stdout) ELSE 0,
         snapshots |-> IF listed THEN FirstLines(snaps, 10) ELSE <<>>,
         snapshot_count |-> IF listed THEN Len(snaps) ELSE 0,
         unaccounted_bytes |-> IF disk_used > mapped
                               THEN disk_used - mapped ELSE 0]

NoCall == [raises |-> "not called"]

\* run_scan line 2072 with scan_mail_and_backups
ToolsMail ==
    /\ tpc = "mail"
    /\ \E run \in RunResults(TmutilLines) :
        /\ calls' = [calls EXCEPT !["tmutil_mail"] = run]
        /\ tool_items' = tool_items \o snapshot_item(run)
    /\ tpc' = "dev"
    /\ UNCHANGED <<cache_dirs, hidden_space, tout>>
    /\ UNCHANGED notToolsVars

\* run_scan line 2086 with scan_dev_caches
ToolsDev ==
    /\ tpc = "dev"
    /\ \E run \in RunResults(DockerLines) :
        /\ calls' = [calls EXCEPT !["docker"] = run]
        /\ tool_items' = tool_items \o docker_item(run) \o npm_item
    /\ tpc' = "full_disk"
    /\ UNCHANGED <<cache_dirs, hidden_space, tout>>
    /\ UNCHANGED notToolsVars

\* run_scan line 2090 with scan_full_disk line 1163: detect_hidden_space
ToolsHidden ==
    /\ tpc = "full_disk"
    /\ \E diskutil \in RunResults(DiskutilLines), tmutil \in RunResults(TmutilLines),
          disk_used \in {0, 2} :
        /\ calls' = [calls EXCEPT !["diskutil"] = diskutil, !["tmutil_hidden"] = tmutil]
        /\ hidden_space' = detect_hidden_space(diskutil, tmutil, disk_used, 1)
    /\ tpc' = "finish"
    /\ UNCHANGED <<cache_dirs, tool_items, tout>>
    /\ UNCHANGED notToolsVars

\* run_scan lines 2095-2173: the items are sorted and the complete event is written
\* (of its payload, the items and metrics.hidden_space are modelled)
ToolsComplete ==
    /\ tpc = "finish"
    /\ tool_items' = SortBySize(tool_items)
    /\ tout' = Append(tout, [event |-> "complete", items |-> SortBySize(tool_items),
                             hidden_space |-> hidden_space])
    /\ tpc' = "done"
    /\ UNCHANGED <<cache_dirs, calls, hidden_space>>
    /\ UNCHANGED notToolsVars

ToolsStart ==
    /\ tpc = "mail"
    /\ cache_dirs \in [{docker_vm, npm_cache} -> CacheDirChoices]
    /\ calls = [c \in {"tmutil_mail", "docker", "diskutil", "tmutil_hidden"} |-> NoCall]
    /\ tool_items = <<>>
    /\ hidden_space = [called |-> FALSE]
    /\ tout = <<>>

ToolsInit ==
    /\ ToolsStart
    /\ PurgeIdle /\ ClassIdle /\ ScanIdle /\ SwarmIdle /\ StoreIdle /\ PredictIdle /\ RecIdle
    /\ SignIdle /\ DaemonIdle /\ FaultIdle
    /\ DiskIdle
    /\ StaleIdle
    /\ WalkIdle
    /\ PoolIdle
    /\ LatchIdle
    /\ HistIdle

ToolsNext == ToolsMail \/ ToolsDev \/ ToolsHidden \/ ToolsComplete

SpecTools == ToolsInit /\ [][ToolsNext]_vars

-----------------------------------------------------------------------------
(* properties of the subprocess calls *)

CallFailed(call) == calls[call].raises # "none" \/ calls[call].returncode # 0

ItemPaths(items) == { items[i].path : i \in DOMAIN items }

\* C21: whatever way the docker, tmutil and diskutil calls end, run_scan writes its
\* complete event; a failed tmutil call leaves no snapshot item and no snapshot list,
\* a failed diskutil call leaves purgeable_bytes 0, and the cache directories
\* reported are those of the filesystem that are large enough, whatever docker did.
C21_SubprocessesDegrade ==
    tpc = "done" =>
        /\ Len(tout) = 1 /\ tout[1].event = "complete"
        /\ CallFailed("tmutil_mail") => time_machine_path \notin ItemPaths(tout[1].items)
        /\ CallFailed("tmutil_hidden") =>
            /\ tout[1].hidden_space.snapshots = <<>>
            /\ tout[1].hidden_space.snapshot_count = 0
        /\ CallFailed("diskutil") => tout[1].hidden_space.purgeable_bytes = 0
        /\ ItemPaths(tout[1].items) \cap DOMAIN cache_dirs
            = { p \in DOMAIN cache_dirs : cache_dirs[p] > MIN_ITEM_SIZE }

-----------------------------------------------------------------------------
(* scan_full_disk: the map of HOME, ~/Library and /Applications *)

\* the entries of HOME that are listed, at most
MaxHomeEntries == 2

\* the application bundles of /Applications, at most
MaxApps == 52

\* line 1152: the entries of a category that are kept
TOP_DIRS == 50

\* lines 940-965, keyed by the name of the entry
DISK_CATEGORIES ==
    <<"Desktop">> :> "documents" @@ <<"Documents">> :> "documents"
    @@ <<"Downloads">> :> "documents" @@ <<"Movies">> :> "media" @@ <<"Music">> :> "media"
    @@ <<"Pictures">> :> "photos" @@ <<"Photos Library.photoslibrary">> :> "photos"
    @@ <<"Developer">> :> "developer" @@ <<"Projects">> :> "developer"
    @@ <<"dev">> :> "developer" @@ <<"code">> :> "developer" @@ <<"repos">> :> "developer"
    @@ <<"workspace">> :> "developer" @@ <<"src">> :> "developer" @@ <<"go">> :> "developer"
    @@ <<".cargo">> :> "developer" @@ <<".npm">> :> "developer"
    @@ <<".rustup">> :> "developer" @@ <<".pyenv">> :> "developer"
    @@ <<".rbenv">> :> "developer" @@ <<".nvm">> :> "developer"
    @@ <<"Public">> :> "other" @@ <<".Trash">> :> "other"

\* lines 968-985
LIBRARY_CATEGORIES ==
    <<"Caches">> :> "system_data" @@ <<"Logs">> :> "system_data"
    @@ <<"Application Support">> :> "app_data" @@ <<"Containers">> :> "app_data"
    @@ <<"Group Containers">> :> "app_data" @@ <<"Preferences">> :> "system_data"
    @@ <<"Saved Application State">> :> "system_data" @@ <<"Developer">> :> "developer"
    @@ <<"Mail">> :> "mail_messages" @@ <<"Messages">> :> "mail_messages"
    @@ <<"Calendars">> :> "other" @@ <<"Accounts">> :> "other" @@ <<"Fonts">> :> "other"
    @@ <<"Keychains">> :> "system_data" @@ <<"MobileDevice">> :> "other"
    @@ <<"Safari">> :> "app_data"

\* lines 987-998: cat_id -> display name
CATEGORY_DISPLAY ==
    [applications |-> "Applications", developer |-> "Developer", documents |-> "Documents",
     media |-> "Music & Movies", photos |-> "Photos", mail_messages |-> "Mail & Messages",
     app_data |-> "App Data", system_data |-> "System Data", other |-> "Other",
     cleanable |-> "Cleanable Junk"]

\* dict.get(name, default)
DictGet(table, name, default) == IF name \in DOMAIN table THEN table[name] ELSE default

\* line 1071: the children that make a directory of HOME a developer directory
developer_children ==
    {".git", "package.json", "Cargo.toml", "go.mod", "setup.py", "Makefile", "CMakeLists.txt"}

apps_path == <<Sep, "Applications">>

\* an os.DirEntry: its name (a token sequence), whether it is a directory, a file or
\* a symlink, its size (get_dir_size_fast or st_size) and the names of its children
DirEntry(name, kind, size, children) ==
    [name |-> name, kind |-> kind, size |-> size, children |-> children]

HomeEntryChoices ==
    { DirEntry(<<"Desktop">>, "dir", 0, {}),
      DirEntry(<<"Developer">>, "dir", 4096, {}),
      DirEntry(<<"Library">>, "dir", 4096, {"Developer"}),
      DirEntry(<<"proj">>, "dir", 4096, {".git"}),
      DirEntry(<<"proj">>, "dir", 4096, {"README"}),
      DirEntry(<<"notes.txt">>, "file", 512, {}),
      DirEntry(<<"link">>, "link", 0, {}) }

LibraryEntryChoices ==
    { DirEntry(<<"Caches">>, "dir", MiB, {}),
      DirEntry(<<"Developer">>, "dir", 2 * MiB, {}),
      DirEntry(<<"Unknown">>, "dir", MiB + 1, {}),
      DirEntry(<<"alias">>, "link", 0, {}) }

\* the sizes of n application bundles in the order os.scandir yields them
AppPatterns == {"equal", "rising", "small first"}

AppSize(pattern, n, i) ==
    IF pattern = "equal" THEN 2 * MiB
    ELSE IF pattern = "rising" THEN 2 * MiB + i
    ELSE IF i = 1 THEN MiB ELSE 2 * MiB + i

AppListing(pattern, n) ==
    [i \in 1..n |-> DirEntry(<<"App", ToString(i), ".app">>, "dir", AppSize(pattern, n, i), {})]

AppCounts == {0, 1, TOP_DIRS, TOP_DIRS + 1, MaxApps}

\* the listings of HOME and ~/Library that the large listings of /Applications are
\* combined with
FullHome ==
    << DirEntry(<<"proj">>, "dir", 4096, {".git"}), DirEntry(<<"Developer">>, "dir", 4096, {}) >>

FullLibrary == << DirEntry(<<"Developer">>, "dir", 2 * MiB, {}) >>

\* the names of a listing are those of one directory: no two are equal
DistinctNames(entries) ==
    \A i, j \in DOMAIN entries : entries[i].name = entries[j].name => i = j

\* entry.path: the directory that is listed joined with the entry's name
HomePath(dir, name) == PathJoin(HOME, <<name>>)

EntryPath(dir, name) == PathJoin(dir, <<name>>)

\* the element appended to categories[cat]["dirs"]
MappedDir(name, path, bytes) == [name |-> name, path |-> path, bytes |-> bytes]

NewCategories ==
    [cat_id \in DOMAIN CATEGORY_DISPLAY |->
        [name |-> CATEGORY_DISPLAY[cat_id], bytes |-> 0, count |-> 0, dirs |-> <<>>]]

\* lines 1074-1083 and 1104-1113
AddDir(m, cat, d) ==
    [categories |-> [m.categories EXCEPT ![cat] =
                        [name |-> @.name, bytes |-> @.bytes + d.bytes,
                         count |-> @.count + 1, dirs |-> Append(@.dirs, d)]],
     total_mapped |-> m.total_mapped + d.bytes]

\* lines 1047-1055: the category of an entry of HOME
HomeCategory(entry) ==
    LET cat == DictGet(DISK_CATEGORIES, entry.name, "other")
    IN  IF cat = "other" /\ entry.kind = "dir"
           /\ entry.children \cap developer_children # {}
        THEN "developer" ELSE cat

\* lines 1033-1086: the loop over os.scandir(HOME)
RECURSIVE MapHomeEntries(_, _)
MapHomeEntries(m, entries) ==
    IF entries = <<>> THEN m
    ELSE LET entry == Head(entries)
             skipped == \/ entry.kind \notin {"dir", "file"}
                        \/ entry.name = <<"Library">>
                        \/ ~(entry.size > 0)
         IN  MapHomeEntries(
                 IF skipped THEN m
                 ELSE AddDir(m, HomeCategory(entry),
                             MappedDir(entry.name, EntryPath(HOME, entry.name), entry.size)),
                 Tail(entries))

\* lines 1088-1116: the loop over os.scandir(LIBRARY)
RECURSIVE MapLibraryEntries(_, _)
MapLibraryEntries(m, entries) ==
    IF entries = <<>> THEN m
    ELSE LET entry == Head(entries)
             skipped == entry.kind # "dir" \/ ~(entry.size > 1024 * 1024)
         IN  MapLibraryEntries(
                 IF skipped THEN m
                 ELSE AddDir(m, DictGet(LIBRARY_CATEGORIES, entry.name, "system_data"),
                             MappedDir(<<"Library", Sep>> \o entry.name,
                                       EntryPath(LIBRARY, entry.name), entry.size)),
                 Tail(entries))

\* entry.name.replace(".app", "")
RECURSIVE WithoutApp(_)
WithoutApp(name) ==
    IF name = <<>> THEN <<>>
    ELSE IF Head(name) = ".app" THEN WithoutApp(Tail(name))
    ELSE <<Head(name)>> \o WithoutApp(Tail(name))

\* lines 1123-1127: the entries of /Applications that are mapped
IsMappedApp(entry) == entry.kind = "dir" /\ entry.size > 1024 * 1024

RECURSIVE SumBytes(_)
SumBytes(ds) == IF ds = <<>> THEN 0 ELSE Head(ds).bytes + SumBytes(Tail(ds))

\* lines 1121-1139: the loop over os.scandir("/Applications")
MapApplicationEntries(before, entries) ==
    LET mapped == SelectSeq(entries, IsMappedApp)
        added == [i \in 1..Len(mapped) |->
                     MappedDir(WithoutApp(mapped[i].name),
                               EntryPath(apps_path, mapped[i].name), mapped[i].size)]
    IN  [total_apps |-> SumBytes(added), app_count |-> Len(added), dirs |-> before \o added]

\* list.sort(key=bytes, reverse=True): stable, largest first. The place of an element
\* is one more than the number of elements that are larger, or equal and before it
SortByBytes(ds) ==
    LET n == Len(ds)
        place == [i \in 1..n |->
                     1 + Cardinality({ j \in 1..n : \/ ds[j].bytes > ds[i].bytes
                                                    \/ ds[j].bytes = ds[i].bytes /\ j < i })]
    IN  [k \in 1..n |-> ds[CHOOSE i \in 1..n : place[i] = k]]

\* lines 1151-1160: the first TOP_DIRS entries and the entry that stands for the rest;
\* its name is formatted after the list has been cut
KeepTop(ds) ==
    IF Len(ds) > TOP_DIRS
    THEN LET kept == SubSeq(ds, 1, TOP_DIRS)
         IN  Append(kept, MappedDir(<<"(", ToString(Len(kept)), " more items)">>, <<>>,
                                    SumBytes(SubSeq(ds, TOP_DIRS + 1, Len(ds)))))
    ELSE ds

\* scan_full_disk lines 1033-1086
MapHome ==
    /\ mpc = "home"
    /\ LET m == MapHomeEntries([categories |-> categories, total_mapped |-> total_mapped],
                               listing.home)
       IN  /\ categories' = m.categories
           /\ total_mapped' = m.total_mapped
    /\ mpc' = "library"
    /\ UNCHANGED listing
    /\ UNCHANGED notDiskVars

\* scan_full_disk lines 1088-1116
MapLibrary ==
    /\ mpc = "library"
    /\ LET m == MapLibraryEntries([categories |-> categories, total_mapped |-> total_mapped],
                                  listing.library)
       IN  /\ categories' = m.categories
           /\ total_mapped' = m.total_mapped
    /\ mpc' = "applications"
    /\ UNCHANGED listing
    /\ UNCHANGED notDiskVars

\* scan_full_disk lines 1118-1146
MapApplications ==
    /\ mpc = "applications"
    /\ LET a == MapApplicationEntries(categories["applications"].dirs, listing.apps)
       IN  /\ categories' = [categories EXCEPT !["applications"] =
                                [name |-> @.name, bytes |-> a.total_apps,
                                 count |-> a.app_count, dirs |-> a.dirs]]
           /\ total_mapped' = total_mapped + a.total_apps
    /\ mpc' = "sort"
    /\ UNCHANGED listing
    /\ UNCHANGED notDiskVars

\* scan_full_disk lines 1148-1175: every category's dirs are sorted and cut, and the
\* map is returned (detect_hidden_space is modelled with the subprocess calls above)
SortDirs ==
    /\ mpc = "sort"
    /\ categories' = [cat_id \in DOMAIN categories |->
                        [name |-> categories[cat_id].name,
                         bytes |-> categories[cat_id].bytes,
                         count |-> categories[cat_id].count,
                         dirs |-> KeepTop(SortByBytes(categories[cat_id].dirs))]]
    /\ mpc' = "done"
    /\ UNCHANGED <<listing, total_mapped>>
    /\ UNCHANGED notDiskVars

DiskStart ==
    /\ mpc = "home"
    /\ \E home \in { q \in Arrangements(HomeEntryChoices, MaxHomeEntries) : DistinctNames(q) },
          library \in Arrangements(LibraryEntryChoices, 1),
          pattern \in AppPatterns, n \in AppCounts :
        /\ n > 1 => home = FullHome /\ library = FullLibrary
        /\ listing = [home |-> home, library |-> library, apps |-> AppListing(pattern, n)]
    /\ categories = NewCategories
    /\ total_mapped = 0

DiskInit ==
    /\ DiskStart
    /\ PurgeIdle /\ ClassIdle /\ ScanIdle /\ SwarmIdle /\ StoreIdle /\ PredictIdle /\ RecIdle
    /\ SignIdle /\ DaemonIdle /\ FaultIdle /\ ToolsIdle
    /\ StaleIdle
    /\ WalkIdle
    /\ PoolIdle
    /\ LatchIdle
    /\ HistIdle

DiskNext == MapHome \/ MapLibrary \/ MapApplications \/ SortDirs

SpecDisk == DiskInit /\ [][DiskNext]_vars

-----------------------------------------------------------------------------
(* properties of the full-disk map *)

NonCleanable == DOMAIN CATEGORY_DISPLAY \ {"cleanable"}

\* C22: a directory path is in the dirs of at most one category other than cleanable,
\* and at most once there (the entry that stands for the cut rest has no path).
C22_DirsInOneCategory ==
    \A c1, c2 \in NonCleanable :
        \A i \in DOMAIN categories[c1].dirs, j \in DOMAIN categories[c2].dirs :
            /\ categories[c1].dirs[i].path = categories[c2].dirs[j].path
            /\ categories[c1].dirs[i].path # <<>>
            => c1 = c2 /\ i = j

\* the map is complete, a name that HOME and ~/Library both hold is mapped from both
\* (two entries of developer), and /Applications has more entries than are kept
C22_Witness ==
    /\ mpc = "done"
    /\ Len(categories["developer"].dirs) >= 2
    /\ Len(categories["applications"].dirs) > TOP_DIRS

IsSortedByBytes(ds) == \A i, j \in DOMAIN ds : i < j => ds[i].bytes >= ds[j].bytes

RealEntries(ds) == { i \in DOMAIN ds : ds[i].path # <<>> }

\* C27: once scan_full_disk has returned, every category's dirs hold no entry that
\* is larger than an entry before it, hold at most TOP_DIRS entries with a path and
\* at most one without, and sum up to the category's bytes.
C27_DirsSortedAndCut ==
    mpc = "done" =>
        \A c \in DOMAIN categories :
            /\ IsSortedByBytes(categories[c].dirs)
            /\ Cardinality(RealEntries(categories[c].dirs)) <= TOP_DIRS
            /\ Len(categories[c].dirs) <= Cardinality(RealEntries(categories[c].dirs)) + 1
            /\ SumBytes(categories[c].dirs) = categories[c].bytes

-----------------------------------------------------------------------------
(* detect_stale_projects *)

\* the directories a search root holds, at most
MaxProjects == 2

\* line 1504
STALE_THRESHOLD_DAYS == 90

\* lines 1467-1480
PROJECT_MARKERS ==
    << ".git", "package.json", "Cargo.toml", "go.mod", "setup.py", "pyproject.toml",
       "Gemfile", "Makefile", "CMakeLists.txt", "pom.xml", "build.gradle", ".xcodeproj" >>

\* lines 1484-1501, in the order of the dict
CLEANABLE_ARTIFACTS ==
    << "node_modules", ".venv", "venv", "__pycache__", "target", "build", "dist", ".next",
       ".nuxt", ".cache", "coverage", ".tox", ".gradle", "Pods", "DerivedData",
       ".dart_tool" >>

\* lines 1518-1529
search_roots ==
    << HOME, J(HOME, <<"Desktop">>), J(HOME, <<"Documents">>), J(HOME, <<"Developer">>),
       J(HOME, <<"Projects">>), J(HOME, <<"dev">>), J(HOME, <<"code">>), J(HOME, <<"repos">>),
       J(HOME, <<"workspace">>), J(HOME, <<"src">>) >>

\* time.time(), in seconds
time_now == 300 * SECONDS_PER_DAY

\* a directory entry of a search root: its name, whether it is a directory or a
\* symlink, the names of its children, the largest atime or mtime of the children
\* (0: no child could be examined) and the bytes of the children that are directories
ProjectDir(name, kind, children, most_recent, sizes) ==
    [name |-> name, kind |-> kind, children |-> children, most_recent |-> most_recent,
     sizes |-> sizes]

DaysAgo(days, seconds) == time_now - (days * SECONDS_PER_DAY + seconds)

ProjectDirChoices ==
    { ProjectDir("app", "dir", {"package.json", "node_modules"}, DaysAgo(200, 0),
                 [node_modules |-> 2 * MiB]),
      ProjectDir("app", "dir", {"package.json", "node_modules"}, DaysAgo(89, 43000),
                 [node_modules |-> 2 * MiB]),
      ProjectDir("lib", "dir", {"Cargo.toml", ".git", "target", "build"}, DaysAgo(90, 0),
                 [target |-> 3 * MiB, build |-> MiB]),
      ProjectDir("tool", "dir", {"go.mod", "dist", "coverage"}, DaysAgo(90, 43200),
                 [dist |-> MiB + 1, coverage |-> 2 * MiB]),
      ProjectDir("notes", "dir", {"README", "build"}, DaysAgo(200, 0), [build |-> 2 * MiB]),
      ProjectDir("gone", "dir", {".git", "dist"}, 0, [dist |-> 2 * MiB]),
      ProjectDir("bare", "dir", {".git", "src"}, DaysAgo(200, 0), [src |-> 2 * MiB]),
      ProjectDir("ln", "link", {"package.json", "node_modules"}, DaysAgo(200, 0),
                 [node_modules |-> 2 * MiB]) }

Listings(n) ==
    { q \in Arrangements(ProjectDirChoices, n) :
        \A i, j \in DOMAIN q : q[i].name = q[j].name => i = j }

projects_root == J(HOME, <<"Projects">>)
dev_root == J(HOME, <<"dev">>)

\* os.path.isdir(search_root): symlinks are followed
RootIsDir(fs, root) ==
    root = HOME \/ root = projects_root \/ (root = dev_root /\ fs.dev_is_link)

\* os.scandir(search_root): HOME holds its own entries, ~/Projects and, if it is
\* there, the symlink ~/dev; ~/dev yields what ~/Projects holds
ScanDir(fs, root) ==
    IF root = HOME
    THEN fs.home
         \o << ProjectDir("Projects", "dir", { fs.projects[i].name : i \in DOMAIN fs.projects },
                          DaysAgo(200, 0), <<>>) >>
         \o (IF fs.dev_is_link
             THEN << ProjectDir("dev", "link", {}, DaysAgo(200, 0), <<>>) >> ELSE <<>>)
    ELSE fs.projects

\* line 1549: markers = [m for m in PROJECT_MARKERS if m in children]
MarkersOf(children) == SelectSeq(PROJECT_MARKERS, LAMBDA m : m \in children)

\* line 1566
days_since(most_recent) == Fraction(time_now - most_recent, 86400)

\* line 1568: the project was touched within the threshold
AlwaysStale(days) == FALSE

IsActive(days) == Less(days, Fraction(STALE_THRESHOLD_DAYS, 1))

\* lines 1574-1592: the artifact directories of a project that are larger than 1 MiB
IsArtifactDir(entry, artifact_name) ==
    /\ artifact_name \in entry.children
    /\ artifact_name \in DOMAIN entry.sizes
    /\ entry.sizes[artifact_name] > 1024 * 1024

CleanableDirs(entry, entry_path) ==
    LET names == SelectSeq(CLEANABLE_ARTIFACTS, LAMBDA a : IsArtifactDir(entry, a))
    IN  [i \in 1..Len(names) |->
            [name |-> names[i], path |-> PathJoin(entry_path, << <<names[i]>> >>),
             bytes |-> entry.sizes[names[i]]]]

\* reclaimable += size
Reclaimable(cleanable_dirs) == SumBytes(cleanable_dirs)

\* lines 1594-1605
StaleProject(entry, entry_path) ==
    [path |-> entry_path, name |-> Basename(entry_path),
     days_stale |-> round(days_since(entry.most_recent)),
     reclaimable_bytes |-> Reclaimable(CleanableDirs(entry, entry_path)),
     cleanable_dirs |-> CleanableDirs(entry, entry_path),
     markers |-> MarkersOf(entry.children)]

\* lines 1535-1605: one entry of a search root; s holds seen and projects
StaleEntry(s, root, entry) ==
    LET entry_path == PathJoin(root, << <<entry.name>> >>)
    IN  IF entry.kind # "dir" \/ entry_path \in s.seen THEN s
        ELSE IF \/ MarkersOf(entry.children) = <<>>
                \/ entry.most_recent = 0
                \/ IsActive(days_since(entry.most_recent))
                \/ CleanableDirs(entry, entry_path) = <<>>
        THEN [seen |-> s.seen \cup {entry_path}, projects |-> s.projects]
        ELSE [seen |-> s.seen \cup {entry_path},
              projects |-> Append(s.projects, StaleProject(entry, entry_path))]

RECURSIVE StaleEntries(_, _, _)
StaleEntries(s, root, entries) ==
    IF entries = <<>> THEN s
    ELSE StaleEntries(StaleEntry(s, root, Head(entries)), root, Tail(entries))

\* list.sort(key=reclaimable_bytes, reverse=True): stable, largest first
RECURSIVE InsertByReclaimable(_, _)
InsertByReclaimable(sorted, x) ==
    IF sorted = <<>> THEN <<x>>
    ELSE IF Head(sorted).reclaimable_bytes >= x.reclaimable_bytes
    THEN <<Head(sorted)>> \o InsertByReclaimable(Tail(sorted), x)
    ELSE <<x>> \o sorted

RECURSIVE SortByReclaimable(_)
SortByReclaimable(ps) ==
    IF ps = <<>> THEN <<>>
    ELSE InsertByReclaimable(SortByReclaimable(SubSeq(ps, 1, Len(ps) - 1)), ps[Len(ps)])

\* detect_stale_projects lines 1533-1608: one pass of `for search_root in search_roots`
StaleRoot ==
    /\ zpc = "scan"
    /\ root_idx <= Len(search_roots)
    /\ LET root == search_roots[root_idx]
           s == IF RootIsDir(root_dirs, root)
                THEN StaleEntries([seen |-> seen, projects |-> projects], root,
                                  ScanDir(root_dirs, root))
                ELSE [seen |-> seen, projects |-> projects]
       IN  /\ seen' = s.seen
           /\ projects' = s.projects
    /\ root_idx' = root_idx + 1
    /\ UNCHANGED <<zpc, root_dirs>>
    /\ UNCHANGED notStaleVars

\* detect_stale_projects lines 1610-1623: the projects are sorted and returned
StaleSort ==
    /\ zpc = "scan"
    /\ root_idx > Len(search_roots)
    /\ projects' = SortByReclaimable(projects)
    /\ zpc' = "done"
    /\ UNCHANGED <<root_idx, root_dirs, seen>>
    /\ UNCHANGED notStaleVars

StaleStart ==
    /\ zpc = "scan"
    /\ root_idx = 1
    /\ root_dirs \in [home : Listings(1), projects : Listings(MaxProjects),
                      dev_is_link : BOOLEAN]
    /\ seen = {}
    /\ projects = <<>>

StaleInit ==
    /\ StaleStart
    /\ PurgeIdle /\ ClassIdle /\ ScanIdle /\ SwarmIdle /\ StoreIdle /\ PredictIdle /\ RecIdle
    /\ SignIdle /\ DaemonIdle /\ FaultIdle /\ ToolsIdle /\ DiskIdle
    /\ WalkIdle
    /\ PoolIdle
    /\ LatchIdle
    /\ HistIdle

StaleNext == StaleRoot \/ StaleSort

SpecStale == StaleInit /\ [][StaleNext]_vars

-----------------------------------------------------------------------------
(* properties of the stale project detector *)

\* C23: every project that detect_stale_projects holds has a project marker among
\* the children of its directory, is stale for at least STALE_THRESHOLD_DAYS days,
\* has as reclaimable_bytes the sum of the bytes of its cleanable_dirs, and no two
\* projects have the same path.
C23_StaleProjects ==
    /\ \A i \in DOMAIN projects :
        /\ projects[i].markers # <<>>
        /\ \A k \in DOMAIN projects[i].markers :
            \E r \in DOMAIN search_roots :
                /\ RootIsDir(root_dirs, search_roots[r])
                /\ \E e \in { ScanDir(root_dirs, search_roots[r])[n] :
                                n \in DOMAIN ScanDir(root_dirs, search_roots[r]) } :
                    /\ PathJoin(search_roots[r], << <<e.name>> >>) = projects[i].path
                    /\ projects[i].markers[k] \in e.children
        /\ projects[i].days_stale >= STALE_THRESHOLD_DAYS
        /\ projects[i].cleanable_dirs # <<>>
        /\ projects[i].reclaimable_bytes = SumBytes(projects[i].cleanable_dirs)
    /\ \A i, j \in DOMAIN projects : projects[i].path = projects[j].path => i = j

\* the detector has returned two projects, one found through the symlinked search
\* root ~/dev and in ~/Projects as well, one of them stale for exactly the threshold
C23_Witness ==
    /\ zpc = "done"
    /\ Len(projects) >= 2
    /\ \E i, j \in DOMAIN projects :
        /\ projects[i].name = projects[j].name
        /\ i # j
    /\ \E i \in DOMAIN projects : projects[i].days_stale = STALE_THRESHOLD_DAYS

-----------------------------------------------------------------------------
(* swarm_scanner.py: the explorer's walk and the scanner's own node_modules *)

\* the scan roots of one deploy_swarm, at most
MaxWalkRoots == 2

\* the depth of the directory tree below the root directory
TreeDepth == 5

\* the scanner's files: /app/agents/swarm_scanner.py, so THIS_PROJECT_DIR is /app
ThisScript == <<Sep, "app", Sep, "agents", Sep, "swarm_scanner.py">>

\* the directories that are no symlinks
WalkDirs ==
    { Root, <<Sep, "app">>, <<Sep, "app", Sep, "agents">>, <<Sep, "app", Sep, ".git">>,
      <<Sep, "app", Sep, "node_modules">>,
      <<Sep, "app", Sep, "node_modules", Sep, "pkg">>,
      <<Sep, "app", Sep, "node_modules", Sep, "pkg", Sep, "node_modules">>,
      <<Sep, "w">>, <<Sep, "w", Sep, "proj">>, <<Sep, "w", Sep, "other">>,
      <<Sep, "w", Sep, "other", Sep, "node_modules">> }

\* the regular files and their st_size
WalkFiles ==
    ThisScript :> 4096
    @@ <<Sep, "app", Sep, ".git", Sep, "HEAD">> :> 2048
    @@ <<Sep, "app", Sep, "node_modules", Sep, "pkg", Sep, "index.js">> :> 4096
    @@ <<Sep, "app", Sep, "node_modules", Sep, "pkg", Sep, "node_modules", Sep, "dep.js">> :> 8192
    @@ <<Sep, "w", Sep, "proj", Sep, "main.log">> :> 2048
    @@ <<Sep, "w", Sep, "proj", Sep, "small.txt">> :> 1024
    @@ <<Sep, "w", Sep, "other", Sep, "node_modules", Sep, "x.js">> :> 2048

\* the symlinks a user may have made: /w/proj/node_modules to a node_modules
\* directory elsewhere, /w/lnk to a directory, /w/proj/f.js to a file
WalkLinkChoices ==
    { <<>> }
    \cup { <<Sep, "w", Sep, "proj", Sep, "node_modules">> :> t :
             t \in { <<Sep, "w", Sep, "other", Sep, "node_modules">>,
                     <<Sep, "app", Sep, "node_modules">>,
                     <<Sep, "app", Sep, "node_modules", Sep, "pkg", Sep, "node_modules">> } }
    \cup { <<Sep, "w", Sep, "lnk">> :> t :
             t \in { <<Sep, "app", Sep, "node_modules">>, <<Sep, "app">> } }
    \cup { <<Sep, "w", Sep, "proj", Sep, "f.js">> :>
             <<Sep, "app", Sep, "node_modules", Sep, "pkg", Sep, "index.js">> }

\* target_path, or the roots of the list of lines 298-305
WalkRootChoices ==
    { Root, <<Sep, "app">>, <<Sep, "app", Sep, "node_modules">>,
      <<Sep, "app", Sep, "node_modules", Sep, "pkg">>,
      <<Sep, "app", Sep, "node_modules", Sep>>,
      <<Sep, "w">>, <<Sep, "w", Sep, "lnk">>, <<Sep, "w", Sep, "proj">>,
      <<Sep, "w", Sep, "gone">> }

\* os.path.realpath on the filesystem with the symlinks L
RECURSIVE JoinRealIn(_, _, _)
JoinRealIn(L, cur, rest) ==
    IF rest = <<>> THEN cur
    ELSE LET name == Head(rest) IN
         IF name = <<>> \/ name = <<".">> THEN JoinRealIn(L, cur, Tail(rest))
         ELSE IF name = <<"..">> THEN JoinRealIn(L, Dirname(cur), Tail(rest))
         ELSE LET newpath == PathJoin(cur, <<name>>) IN
              IF newpath \in DOMAIN L
              THEN JoinRealIn(L, Root, Components(L[newpath]) \o Tail(rest))
              ELSE JoinRealIn(L, newpath, Tail(rest))

RealPathIn(L, path) == JoinRealIn(L, Root, Components(path))

\* lines 33-34
THIS_PROJECT_DIR ==
    RealPathIn(<<>>, PathJoin(Dirname(ThisScript), << <<"..">> >>))

THIS_PROJECT_NODE_MODULES == PathJoin(THIS_PROJECT_DIR, << <<"node_modules">> >>)

\* lines 164-165: real_root is the directory or inside it
IsOwnNodeModules(real_root) ==
    \/ real_root = THIS_PROJECT_NODE_MODULES
    \/ StartsWith(real_root, Append(THIS_PROJECT_NODE_MODULES, Sep))

\* the names os.scandir yields for the directory real_dir
ChildNames(L, real_dir) ==
    { Basename(p) : p \in { q \in (WalkDirs \cup DOMAIN WalkFiles \cup DOMAIN L) :
                              q # Root /\ Dirname(q) = real_dir } }

\* line 175: real_nm is compared with the directory itself
IsNewTarget(real_nm) == real_nm # THIS_PROJECT_NODE_MODULES

\* agent_worker_explorer lines 159-209 from the directory `top` of os.walk on: the
\* items and the targets of this directory and of those below it (as sets)
RECURSIVE ExploreFrom(_, _, _)
ExploreFrom(L, top, fuel) ==
    LET real_root == RealPathIn(L, top)
        nothing == [items |-> {}, targets |-> {}]
    IN  IF fuel = 0 \/ real_root \notin WalkDirs THEN nothing
        ELSE IF IsOwnNodeModules(real_root) THEN nothing
        ELSE
          LET names == ChildNames(L, real_root)
              dirnames == { n \in names : RealPathIn(L, PathJoin(top, <<n>>)) \in WalkDirs }
              files == names \ dirnames
              nm_path == PathJoin(top, << <<"node_modules">> >>)
              git_path == PathJoin(top, << <<".git">> >>)
              dev_projects ==
                  IF <<"node_modules">> \in dirnames /\ IsNewTarget(RealPathIn(L, nm_path))
                  THEN { [type |-> "dev_project", path |-> nm_path] } ELSE {}
              git_repos ==
                  IF <<".git">> \in dirnames
                  THEN { [type |-> "git_repo", path |-> git_path] } ELSE {}
              \* os.walk(followlinks=False) goes down the directories left in dirs
              \* that are no symlinks
              below == { n \in dirnames \ { <<"node_modules">>, <<".git">> } :
                           PathJoin(real_root, <<n>>) \notin DOMAIN L }
              found == { [path |-> PathJoin(top, <<f>>),
                          size |-> WalkFiles[PathJoin(real_root, <<f>>)]] :
                           f \in { g \in files :
                                     /\ PathJoin(real_root, <<g>>) \in DOMAIN WalkFiles
                                     /\ WalkFiles[PathJoin(real_root, <<g>>)] > MIN_ITEM_SIZE } }
              subs == { ExploreFrom(L, PathJoin(top, <<n>>), fuel - 1) : n \in below }
          IN  [items |-> found \cup UNION { s.items : s \in subs },
               targets |-> dev_projects \cup git_repos \cup UNION { s.targets : s \in subs }]

agent_worker_explorer(L, target_dir) == ExploreFrom(L, target_dir, TreeDepth + 1)

\* agent_worker_analyzer lines 226-243: the regular files below target_path that the
\* stack of os.scandir calls reaches (symlinks among the entries are passed over;
\* target_path itself is opened whatever it is)
AnalyzedFiles(L, target_path) ==
    LET real_target == RealPathIn(L, target_path)
    IN  { f \in DOMAIN WalkFiles : IsUnder(real_target, f) }

\* os.path.exists(d)
WalkExists(L, d) == RealPathIn(L, d) \in WalkDirs \cup DOMAIN WalkFiles

\* deploy_swarm lines 313-329: the explorer of one scan root has returned and its
\* items and targets are collected
WalkExplore ==
    /\ wpc = "explore"
    /\ \E i \in DOMAIN walk_roots \ explored :
        /\ explored' = explored \cup {i}
        /\ LET r == IF WalkExists(walk_links, walk_roots[i])
                    THEN agent_worker_explorer(walk_links, walk_roots[i])
                    ELSE [items |-> {}, targets |-> {}]
           IN  /\ found_items' = found_items \cup r.items
               /\ deep_targets' = deep_targets \cup r.targets
    /\ UNCHANGED <<wpc, walk_links, walk_roots, handed, analyzed>>
    /\ UNCHANGED notWalkVars

\* deploy_swarm line 331: the swarm_phase event
WalkPhase ==
    /\ wpc = "explore"
    /\ explored = DOMAIN walk_roots
    /\ wpc' = "analyze"
    /\ UNCHANGED <<walk_links, walk_roots, explored, found_items, deep_targets, handed,
                   analyzed>>
    /\ UNCHANGED notWalkVars

\* deploy_swarm lines 334-339 with agent_worker_analyzer: a target is submitted and
\* its analyzer sizes it
WalkAnalyze ==
    /\ wpc = "analyze"
    /\ \E t \in deep_targets \ handed :
        /\ handed' = handed \cup {t}
        /\ analyzed' = analyzed \cup AnalyzedFiles(walk_links, t.path)
    /\ UNCHANGED <<wpc, walk_links, walk_roots, explored, found_items, deep_targets>>
    /\ UNCHANGED notWalkVars

\* deploy_swarm lines 350-372
WalkComplete ==
    /\ wpc = "analyze"
    /\ handed = deep_targets
    /\ wpc' = "done"
    /\ UNCHANGED <<walk_links, walk_roots, explored, found_items, deep_targets, handed,
                   analyzed>>
    /\ UNCHANGED notWalkVars

WalkStart ==
    /\ wpc = "explore"
    /\ walk_links \in WalkLinkChoices
    /\ walk_roots \in Arrangements(WalkRootChoices, MaxWalkRoots) \ { <<>> }
    /\ explored = {}
    /\ found_items = {}
    /\ deep_targets = {}
    /\ handed = {}
    /\ analyzed = {}

WalkInit ==
    /\ WalkStart
    /\ PurgeIdle /\ ClassIdle /\ ScanIdle /\ SwarmIdle /\ StoreIdle /\ PredictIdle /\ RecIdle
    /\ SignIdle /\ DaemonIdle /\ FaultIdle /\ ToolsIdle /\ DiskIdle /\ StaleIdle
    /\ PoolIdle
    /\ LatchIdle
    /\ HistIdle

WalkNext == WalkExplore \/ WalkPhase \/ WalkAnalyze \/ WalkComplete

SpecWalk == WalkInit /\ [][WalkNext]_vars

-----------------------------------------------------------------------------
(* properties of the walk *)

\* C24: the real path of no explorer item and of no target handed to an analyzer is
\* the scanner's own node_modules directory or inside it.
C24_OwnNodeModulesExcluded ==
    /\ \A item \in found_items : ~IsOwnNodeModules(RealPathIn(walk_links, item.path))
    /\ \A t \in handed : ~IsOwnNodeModules(RealPathIn(walk_links, t.path))

-----------------------------------------------------------------------------
(* deploy_swarm: the two ThreadPoolExecutor phases *)

\* the scan roots that exist, at most (the list of lines 298-305 has six)
MaxPoolTasks == 5

\* lines 314 and 334: ThreadPoolExecutor(max_workers=4)
max_workers == 4

\* a future: "queued" when submitted, "running" while a worker thread of the pool
\* runs it, "finished" (for an explorer with the number of targets it returned), and
\* "collected" when as_completed has yielded it and the loop body has run
Running(futures) == { i \in DOMAIN futures : futures[i].state = "running" }

\* ThreadPoolExecutor: a queued work item is taken by an idle worker thread, and a
\* new worker thread is made only while there are fewer than max_workers
PoolUnbounded(futures) == TRUE

PoolHasWorker(futures) == Cardinality(Running(futures)) < max_workers

\* the with statement leaves after shutdown(wait=True), the loop over as_completed
\* after every future was yielded
AllCollected(futures) == \A i \in DOMAIN futures : futures[i].state = "collected"

Future(state, targets) == [state |-> state, targets |-> targets]

\* deploy_swarm lines 314-318: the explorers are submitted, one for every scan root
\* that exists
SubmitAllExplorers ==
    /\ hpc = "submit_explorers"
    /\ \E n \in 0..MaxPoolTasks :
        explorer_futures' = [i \in 1..n |-> Future("queued", 0)]
    /\ hpc' = "explorers"
    /\ UNCHANGED <<analyzer_futures, pool_targets, pool_events>>
    /\ UNCHANGED notPoolVars

\* a worker thread of the pool of phase 1 takes a queued explorer
ExplorerStarts ==
    /\ hpc = "explorers"
    /\ PoolHasWorker(explorer_futures)
    /\ \E i \in DOMAIN explorer_futures :
        /\ explorer_futures[i].state = "queued"
        /\ explorer_futures' = [explorer_futures EXCEPT ![i].state = "running"]
    /\ UNCHANGED <<hpc, analyzer_futures, pool_targets, pool_events>>
    /\ UNCHANGED notPoolVars

\* agent_worker_explorer returns, with its deep_analysis_targets
ExplorerReturns ==
    /\ \E i \in DOMAIN explorer_futures, found \in 0..1 :
        /\ explorer_futures[i].state = "running"
        /\ explorer_futures' = [explorer_futures EXCEPT ![i] = Future("finished", found)]
    /\ UNCHANGED <<hpc, analyzer_futures, pool_targets, pool_events>>
    /\ UNCHANGED notPoolVars

\* deploy_swarm lines 320-329: as_completed yields a finished future
CollectExplorer ==
    /\ hpc = "explorers"
    /\ \E i \in DOMAIN explorer_futures :
        /\ explorer_futures[i].state = "finished"
        /\ pool_targets' = pool_targets + explorer_futures[i].targets
        /\ explorer_futures' = [explorer_futures EXCEPT ![i].state = "collected"]
    /\ UNCHANGED <<hpc, analyzer_futures, pool_events>>
    /\ UNCHANGED notPoolVars

\* deploy_swarm line 331, after the with statement of phase 1
EmitSwarmPhase ==
    /\ hpc = "explorers"
    /\ AllCollected(explorer_futures)
    /\ pool_events' = Append(pool_events, "swarm_phase")
    /\ hpc' = "submit_analyzers"
    /\ UNCHANGED <<explorer_futures, analyzer_futures, pool_targets>>
    /\ UNCHANGED notPoolVars

\* deploy_swarm lines 336-339: one analyzer is submitted for the next target
SubmitAnalyzer ==
    /\ hpc = "submit_analyzers"
    /\ Len(analyzer_futures) < pool_targets
    /\ analyzer_futures' = Append(analyzer_futures, Future("queued", 0))
    /\ UNCHANGED <<hpc, explorer_futures, pool_targets, pool_events>>
    /\ UNCHANGED notPoolVars

\* deploy_swarm line 341: every target has its analyzer
AnalyzersSubmitted ==
    /\ hpc = "submit_analyzers"
    /\ Len(analyzer_futures) = pool_targets
    /\ hpc' = "analyzers"
    /\ UNCHANGED <<explorer_futures, analyzer_futures, pool_targets, pool_events>>
    /\ UNCHANGED notPoolVars

\* a worker thread of the pool of phase 2 takes a queued analyzer
AnalyzerStarts ==
    /\ hpc \in {"submit_analyzers", "analyzers"}
    /\ PoolHasWorker(analyzer_futures)
    /\ \E i \in DOMAIN analyzer_futures :
        /\ analyzer_futures[i].state = "queued"
        /\ analyzer_futures' = [analyzer_futures EXCEPT ![i].state = "running"]
    /\ UNCHANGED <<hpc, explorer_futures, pool_targets, pool_events>>
    /\ UNCHANGED notPoolVars

\* agent_worker_analyzer returns
AnalyzerReturns ==
    /\ \E i \in DOMAIN analyzer_futures :
        /\ analyzer_futures[i].state = "running"
        /\ analyzer_futures' = [analyzer_futures EXCEPT ![i].state = "finished"]
    /\ UNCHANGED <<hpc, explorer_futures, pool_targets, pool_events>>
    /\ UNCHANGED notPoolVars

\* deploy_swarm lines 341-348: as_completed yields a finished future
CollectAnalyzer ==
    /\ hpc = "analyzers"
    /\ \E i \in DOMAIN analyzer_futures :
        /\ analyzer_futures[i].state = "finished"
        /\ analyzer_futures' = [analyzer_futures EXCEPT ![i].state = "collected"]
    /\ UNCHANGED <<hpc, explorer_futures, pool_targets, pool_events>>
    /\ UNCHANGED notPoolVars

\* deploy_swarm lines 350-372, after the with statement of phase 2
EmitSwarmComplete ==
    /\ hpc = "analyzers"
    /\ AllCollected(analyzer_futures)
    /\ pool_events' = Append(pool_events, "complete")
    /\ hpc' = "done"
    /\ UNCHANGED <<explorer_futures, analyzer_futures, pool_targets>>
    /\ UNCHANGED notPoolVars

\* deploy_swarm lines 291-311
PoolStart ==
    /\ hpc = "submit_explorers"
    /\ explorer_futures = <<>>
    /\ analyzer_futures = <<>>
    /\ pool_targets = 0
    /\ pool_events = << "swarm_init" >>

PoolInit ==
    /\ PoolStart
    /\ PurgeIdle /\ ClassIdle /\ ScanIdle /\ SwarmIdle /\ StoreIdle /\ PredictIdle /\ RecIdle
    /\ SignIdle /\ DaemonIdle /\ FaultIdle /\ ToolsIdle /\ DiskIdle /\ StaleIdle /\ WalkIdle
    /\ LatchIdle
    /\ HistIdle

PoolNext ==
    \/ SubmitAllExplorers
    \/ ExplorerStarts
    \/ ExplorerReturns
    \/ CollectExplorer
    \/ EmitSwarmPhase
    \/ SubmitAnalyzer
    \/ AnalyzersSubmitted
    \/ AnalyzerStarts
    \/ AnalyzerReturns
    \/ CollectAnalyzer
    \/ EmitSwarmComplete

SpecPool == PoolInit /\ [][PoolNext]_vars

-----------------------------------------------------------------------------
(* properties of the two phases *)

Started(futures) == { i \in DOMAIN futures : futures[i].state # "queued" }

\* C25: an analyzer has started only if every explorer has returned and was
\* collected and the swarm_phase event has been emitted, and no more than four
\* explorers and no more than four analyzers run at one time.
C25_PhaseBarrierAndPool ==
    /\ Started(analyzer_futures) # {} =>
        /\ \A i \in DOMAIN explorer_futures : explorer_futures[i].state = "collected"
        /\ \E k \in DOMAIN pool_events : pool_events[k] = "swarm_phase"
    /\ analyzer_futures # <<>> => Running(explorer_futures) = {}
    /\ Cardinality(Running(explorer_futures)) <= 4
    /\ Cardinality(Running(analyzer_futures)) <= 4

\* four analyzers run and a fifth waits for a worker, after five explorers
C25_Witness ==
    /\ Cardinality(Running(analyzer_futures)) = 4
    /\ \E i \in DOMAIN analyzer_futures : analyzer_futures[i].state = "queued"
    /\ Len(explorer_futures) > 4

-----------------------------------------------------------------------------
(* ProgressTracker.update and check_disk of storage_scanner.py *)

\* items_found goes no further than this
MaxItemsFound == 300

\* progress events after the first one, at most (the clock decides)
MaxProgress == 1

\* line 53
DISK_WARN_THRESHOLD == 1024 * MiB

\* line 54: check every N items
DISK_CHECK_INTERVAL == 100

\* shutil.disk_usage("/"): the free bytes, or OSError
DiskUsageError == [raised |-> TRUE, free |-> 0]

DiskUsageChoices ==
    { DiskUsageError } \cup
    { [raised |-> FALSE, free |-> f] : f \in {DISK_WARN_THRESHOLD - 1, DISK_WARN_THRESHOLD} }

\* check_disk_space lines 91-102
check_disk_space(usage) ==
    IF usage.raised
    THEN [free_bytes |-> -1, low |-> FALSE]
    ELSE [free_bytes |-> usage.free, low |-> usage.free < DISK_WARN_THRESHOLD]

\* the number of files of one call of update: none for update(path), one for an item,
\* f_added of a swarm explorer
FilesChoices == {0, 1, DISK_CHECK_INTERVAL \div 2, DISK_CHECK_INTERVAL}

\* check_disk line 273
CheckIsDue(items_found) == items_found > 0 /\ items_found % DISK_CHECK_INTERVAL = 0

WarnWhenLow(status, disk_warned) == status.low

\* check_disk line 275
ShouldWarn(status, disk_warned) == status.low /\ ~disk_warned

WarningEvent(status) ==
    emit([event |-> "warning", type |-> "low_disk_space", free_bytes |-> status.free_bytes])

ProgressOf(events) == SelectSeq(events, LAMBDA e : e.event = "progress")

WarningsOf(events) == SelectSeq(events, LAMBDA e : e.event = "warning")

\* ProgressTracker.update lines 283-323: the files are counted, check_disk runs when
\* there were any, and the progress event is emitted when EMIT_INTERVAL has passed
\* since the last one (always at the first call, last_emit_time being 0)
ProgressUpdate ==
    /\ kpc = "scanning"
    /\ \E files \in FilesChoices, usage \in DiskUsageChoices, tick \in BOOLEAN :
        LET items_found == progress_tracker.items_found + files
            checked == files > 0 /\ CheckIsDue(items_found)
            status == check_disk_space(usage)
            warn == checked /\ ShouldWarn(status, progress_tracker.disk_warned)
            due == progress_tracker.last_emit_time = 0 \/ tick
        IN  /\ items_found <= MaxItemsFound
            /\ ~checked => usage = DiskUsageError
            /\ tick => /\ progress_tracker.last_emit_time # 0
                       /\ Len(ProgressOf(tracker_out)) <= MaxProgress
            /\ progress_tracker' =
                [items_found |-> items_found,
                 disk_warned |-> progress_tracker.disk_warned \/ warn,
                 last_emit_time |-> IF due THEN 1 ELSE progress_tracker.last_emit_time]
            /\ disk_checks' =
                IF checked
                THEN Append(disk_checks, [items_found |-> items_found, usage |-> usage])
                ELSE disk_checks
            /\ tracker_out' = tracker_out
                \o (IF warn THEN << WarningEvent(status) >> ELSE <<>>)
                \o (IF due THEN << ProgressEvent("fast") >> ELSE <<>>)
    /\ UNCHANGED kpc
    /\ UNCHANGED notLatchVars

\* run_scan returns: the tracker is not used again
ProgressDone ==
    /\ kpc = "scanning"
    /\ kpc' = "done"
    /\ UNCHANGED <<progress_tracker, tracker_out, disk_checks>>
    /\ UNCHANGED notLatchVars

\* ProgressTracker.__init__ lines 236-250
LatchStart ==
    /\ kpc = "scanning"
    /\ progress_tracker = [items_found |-> 0, disk_warned |-> FALSE, last_emit_time |-> 0]
    /\ tracker_out = <<>>
    /\ disk_checks = <<>>

LatchInit ==
    /\ LatchStart
    /\ PurgeIdle /\ ClassIdle /\ ScanIdle /\ SwarmIdle /\ StoreIdle /\ PredictIdle /\ RecIdle
    /\ SignIdle /\ DaemonIdle /\ FaultIdle /\ ToolsIdle /\ DiskIdle /\ StaleIdle /\ WalkIdle
    /\ PoolIdle
    /\ HistIdle

LatchNext ==
    \/ ProgressUpdate
    \/ ProgressDone

SpecLatch == LatchInit /\ [][LatchNext]_vars

-----------------------------------------------------------------------------
(* properties of the tracker *)

SawLow(check) == ~check.usage.raised /\ check.usage.free < 1024 * 1024 * 1024

LowChecks == SelectSeq(disk_checks, SawLow)

\* C26: one tracker emits at most one low_disk_space warning; check_disk asks for the
\* disk space only when items_found is a positive multiple of 100; and the warning is
\* emitted at the first of these checks that sees less than 1 GiB free, with the free
\* bytes that check saw.
C26_LowDiskLatch ==
    /\ Len(WarningsOf(tracker_out)) <= 1
    /\ \A k \in DOMAIN disk_checks :
        /\ disk_checks[k].items_found > 0
        /\ disk_checks[k].items_found % 100 = 0
    /\ LowChecks = <<>> => WarningsOf(tracker_out) = <<>>
    /\ LowChecks # <<>> =>
        /\ Len(WarningsOf(tracker_out)) = 1
        /\ WarningsOf(tracker_out)[1].type = "low_disk_space"
        /\ WarningsOf(tracker_out)[1].free_bytes = LowChecks[1].usage.free

\* three checks were made; the first found enough space, the second and the third
\* too little
C26_Witness ==
    /\ Len(disk_checks) = 3
    /\ ~SawLow(disk_checks[1])
    /\ SawLow(disk_checks[2])
    /\ SawLow(disk_checks[3])
    /\ Len(WarningsOf(tracker_out)) = 1

-----------------------------------------------------------------------------
(* coverage of the safe items by the two rules of build_recommendations *)

HasQuickWin(item) ==
    \E k \in DOMAIN recs.list :
        /\ recs.list[k].category = "quick_wins"
        /\ recs.list[k].items = << item.path >>

InCategoryGroup(item) ==
    \E k \in DOMAIN SmallSafe(rec_items) : SmallSafe(rec_items)[k] = item

SafeItems == { rec_items[k] : k \in { j \in DOMAIN rec_items : rec_items[j].risk = "safe" } }

\* C28: every safe item either has a quick_wins recommendation of its own or is one
\* of the items grouped by category for the maintenance recommendations, and never
\* both.
C28_SafeItemsCovered ==
    RecsBuilt => \A item \in SafeItems : HasQuickWin(item) # InCategoryGroup(item)

\* the same with the items of exactly 500 MiB left aside
C28_CoveredButAtTheLimit ==
    RecsBuilt =>
        \A item \in SafeItems :
            item.size # 500 * MiB => HasQuickWin(item) # InCategoryGroup(item)

-----------------------------------------------------------------------------
(* run_daemon after the signal *)

ScanInFlightAtSignal == dpc \in {"scan", "scanning"} /\ sig_at \in {"scan", "scanning"}

\* what the daemon may do once handle_signal has cleared `running`: begin no scan, and
\* write no event of a scan but those of the scan the signal came upon
AfterSignalStep ==
    ~running =>
        /\ scans' = scans
        /\ dpc' # "scan"
        /\ devents' # devents =>
            /\ Len(devents') = Len(devents) + 1
            /\ \/ ScanInFlightAtSignal
               \/ devents'[Len(devents')] \in {"daemon_started", "daemon_stopped"}

-----------------------------------------------------------------------------
(* run_scan's timeline and prediction over the scans of one store.  A scan is made   *)
(* a day after the one before; of a row id, scan_time and total_bytes are modelled.  *)

\* the most scans of one store
MaxHistory == 12

\* the store cannot be opened by the first scans at most
MaxClosed == 1

\* total_bytes of a scan
HistoryTotals == { 10, 12 }

\* disk_map["disk_free"]
history_free == 50

\* get_storage_timeline lines 1743-1762: the rows in the order of their ids
\* (total_formatted is left out)
get_storage_timeline(rows) ==
    [k \in 1..Len(rows) |->
        LET row == CHOOSE r \in { rows[j] : j \in DOMAIN rows } :
                        Cardinality({ i \in Ids(rows) : i < r.id }) = k - 1
        IN  [scan_time |-> row.scan_time, total_bytes |-> row.total_bytes]]

\* save_scan_to_cache lines 1861-1873, for the columns modelled here
SaveTotal(rows, seq, scan_time, total_bytes) ==
    LET all == Append(rows, [id |-> NextId(rows, seq), scan_time |-> scan_time,
                             total_bytes |-> total_bytes])
    IN  SelectSeq(all, LAMBDA r : r.id \in Newest(Ids(all)))

RowsAfterSave(before, after) == after

\* run_scan: get_storage_timeline is called at line 2117, save_scan_to_cache at
\* line 2131
RowsRead(before, after) == before

\* run_scan lines 2049-2173: the store is opened or not (conn), the timeline and the
\* prediction are computed, the row is saved, and the complete event is written
HistoryScan ==
    \E total_bytes \in HistoryTotals, conn \in BOOLEAN :
        LET after == SaveTotal(history_rows, history_seq, history_now, total_bytes)
            tl == IF conn THEN get_storage_timeline(RowsRead(history_rows, after))
                  ELSE <<>>
        IN  /\ Len(scans_run) < MaxHistory
            /\ ~conn => Len(scans_run) < MaxClosed
            /\ history_rows' = IF conn THEN after ELSE history_rows
            /\ history_seq' = IF conn THEN NextId(history_rows, history_seq)
                              ELSE history_seq
            /\ history_event' =
                [event |-> "complete", total_bytes |-> total_bytes, timeline |-> tl,
                 prediction |-> IF conn THEN predict_space_exhaustion(tl, history_free)
                                ELSE None]
            /\ scans_run' = Append(scans_run, [conn |-> conn, scan_time |-> history_now,
                                               total_bytes |-> total_bytes])
            /\ history_now' = history_now + SECONDS_PER_DAY
            /\ UNCHANGED notHistVars

HistStart ==
    /\ history_rows = <<>>
    /\ history_seq = 0
    /\ history_now = 0
    /\ history_event = [event |-> "none"]
    /\ scans_run = <<>>

HistInit ==
    /\ HistStart
    /\ PurgeIdle /\ ClassIdle /\ ScanIdle /\ SwarmIdle /\ StoreIdle /\ PredictIdle /\ RecIdle
    /\ SignIdle /\ DaemonIdle /\ FaultIdle /\ ToolsIdle /\ DiskIdle /\ StaleIdle /\ WalkIdle
    /\ PoolIdle /\ LatchIdle

HistNext == HistoryScan

SpecHist == HistInit /\ [][HistNext]_vars

-----------------------------------------------------------------------------
(* properties of the timeline *)

AllOpened == \A k \in DOMAIN scans_run : scans_run[k].conn

\* the scans before the last one, as entries of a timeline
EarlierScans ==
    [k \in 1..(Len(scans_run) - 1) |->
        [scan_time |-> scans_run[k].scan_time, total_bytes |-> scans_run[k].total_bytes]]

\* C30: when every scan has opened the store, the timeline in the complete event of
\* the k-th scan holds the min(k-1, 10) scans before it, oldest first, and not the
\* k-th scan itself; the first and the second scan have the prediction null.
C30_TimelineBeforeSave ==
    (scans_run # <<>> /\ AllOpened) =>
        LET k == Len(scans_run)
            n == Min(k - 1, 10)
        IN  /\ Len(history_event.timeline) = n
            /\ history_event.timeline = SubSeq(EarlierScans, k - n, k - 1)
            /\ \A j \in DOMAIN history_event.timeline :
                history_event.timeline[j].scan_time # scans_run[k].scan_time
            /\ k <= 2 => history_event.prediction = None

\* the twelfth scan of a store: its timeline holds ten scans and it has a prediction
C30_Witness ==
    /\ Len(scans_run) = 12
    /\ AllOpened
    /\ Len(history_event.timeline) = 10
    /\ history_event.prediction # None

=============================================================================
